---- MODULE Spec2Model ----
(***************************************************************************)
(* Policy decision and retrieval core of bk-iam.                           *)
(*                                                                         *)
(*   - the policy manager's mutating operations (pkg/abac/prp, curd) with  *)
(*     their deferred cache invalidation,                                  *)
(*   - the policy cache and the retrieval path ListBySubjectAction,        *)
(*   - the PDP entrance: Eval, Query, QueryByExtResources and              *)
(*     QueryAuthPolicies with their helper queryFilterPolicies,            *)
(*   - the subject handlers BatchDeleteSubjects and                        *)
(*     UpdateSubjectMembersExpiredAt with the caches they clear,           *)
(*   - single calls of filterPoliciesByEvalResources, getEffectSubjectPKs, *)
(*     the expression translation with mergeContentField, the leaf         *)
(*     condition forOr and the member operations of the subject service,   *)
(*   - two callers that change one subject-system-group record under its   *)
(*     optimistic lock.                                                    *)
(*                                                                         *)
(* One decision request and one mutating operation are in flight at a      *)
(* time; they interleave at their storage and cache calls.                 *)
(***************************************************************************)
EXTENDS Integers, Sequences, FiniteSets, TLC

\* expired_at values of a stored policy are 1..MaxExpiredAt (all in the future)
MaxExpiredAt == 2

\* the longest policy list that is evaluated, translated or merged
MaxPolicies == 3

----------------------------------------------------------------------------
(* The data the model runs on.                                             *)

\* subjects of the subject table; they have no group and no department, so
\* their effective subject pks are the subject's own pk alone
SubjectPKs == {"u1", "u2"}
\* a subject that is not in the subject table (GetSubjectPK: sql.ErrNoRows)
UnknownSubjects == {"u0"}
SubjectIDs == SubjectPKs \cup UnknownSubjects

\* actions of the (single) system; every action belongs to System
System == "bk_iam"
RemoteSystem == "bk_cmdb"
ActionPKs == {"a1", "a2"}
UnknownActions == {"a0"}
ActionIDs == ActionPKs \cup UnknownActions

\* the policy rows that can exist; subject, action and template of a row are
\* fixed by its pk: p1 is a custom policy, p2 a policy of template t1
PolicyPKs == {"p1", "p2"}
CustomTemplate == "custom"
TemplateIDs == {"t1"}

PolicySubject(p) == "u1"

PolicyAction(p) == IF p = "p1" THEN "a1" ELSE "a2"

PolicyTemplate(p) == IF p = "p1" THEN CustomTemplate ELSE "t1"

ExpiredAts == 1..MaxExpiredAt

\* a stored row is its expired_at; the expression of a policy is fixed by
\* its pk (PolicyExpression), so that an update of a row shows in its
\* expired_at alone
Absent == [expired_at |-> 0]

Rows == [expired_at : ExpiredAts]

AuthPolicies == [pk : PolicyPKs, expired_at : ExpiredAts]

CacheKeys == SubjectPKs \X ActionPKs

NoEntry == [hit |-> FALSE, policies |-> {}]

Entry(ps) == [hit |-> TRUE, policies |-> ps]

\* error values, named by the sentinel errors.Is finds in them; the other
\* values are wrapped failures of the call they are named after
NoErr == "nil"
ErrNoPolicies == "ErrNoPolicies"
ErrInvalidAction == "ErrInvalidAction"
ErrSubjectNotExists == "ErrSubjectNotExists"
ErrInvalidActionResource == "ErrInvalidActionResource"
ErrActionNotExists == "ErrActionNotExists"

VARIABLES
    policyTable,   \* storage: policy pk -> row, or Absent
    policyCache,   \* policy cache: <<subject pk, action pk>> -> entry
    req,           \* the decision request in flight
    mut,           \* the mutating operation in flight
    subjectTable,        \* storage: the subjects and the expiry of their memberships
    groupPolicyCache,    \* policy cache entries of group pks: <<system, group pk>>
    subjectDetailCache,  \* subject cache: member -> cached membership expiry, 0 when absent
    handler,             \* the subject handler in flight
    invocation,          \* the call of a pure function: its arguments, then its result
    subjectSystemGroup,  \* storage: the subject-system-group record of one (system, subject)
    updaters             \* the callers that change the record, each in its transaction

subjectVars == <<subjectTable, groupPolicyCache, subjectDetailCache, handler>>

groupVars == <<subjectSystemGroup, updaters>>

vars == <<policyTable, policyCache, req, mut, subjectVars, invocation, groupVars>>

\* the policies storage holds for (system, subject pk, action pk)
StoredPolicies(table, s, a) ==
    { [pk |-> p, expired_at |-> table[p].expired_at] :
        p \in { x \in PolicyPKs : /\ table[x] # Absent
                                  /\ PolicySubject(x) = s
                                  /\ PolicyAction(x) = a } }


----------------------------------------------------------------------------
(* The policy manager's mutating operations.                               *)
(*                                                                         *)
(* A mutating operation runs in steps: its prelude (lookups, conversion,   *)
(* registration of the deferred invalidation), the storage write, and the  *)
(* deferred calls, which Go runs last-registered-first when the function   *)
(* returns.                                                                *)

NoUpdates == [p \in PolicyPKs |-> 0]

DeleteSystemSubjectPKsFromCache == "policy.DeleteSystemSubjectPKsFromCache"
BatchDeleteSystemSubjectPKsFromCache == "policy.BatchDeleteSystemSubjectPKsFromCache"
BatchDeleteExpressionsFromCache == "expression.BatchDeleteExpressionsFromCache"
StorageWrite == "policyService.write"

PolicyCacheDeletes == {DeleteSystemSubjectPKsFromCache, BatchDeleteSystemSubjectPKsFromCache}

IdleMut ==
    [pc |-> "idle", op |-> "none", subject |-> "none", ids |-> {},
     updates |-> NoUpdates, calls |-> <<>>, deferred |-> <<>>, err |-> NoErr]

\* the operation returns from its prelude: nothing written, nothing deferred
MutReturn(op, err) ==
    [IdleMut EXCEPT !.pc = "done", !.op = op, !.err = err]

\* the operation has registered its deferred calls and is about to write
MutToWrite(op, s, ids, updates, deferred) ==
    [IdleMut EXCEPT !.pc = "write", !.op = op, !.subject = s, !.ids = ids,
                    !.updates = updates, !.deferred = deferred]

\* subjectService.GetPK(subjectType, subjectID)
GetPKFails(s, dbFail) == dbFail \/ s \notin SubjectPKs

\* DeleteByIDs
DeleteByIDsPrelude(s, ids, dbFail) ==
    IF GetPKFails(s, dbFail) THEN MutReturn("DeleteByIDs", "ErrGetPK")
    ELSE IF ids = {} THEN MutReturn("DeleteByIDs", NoErr)
    ELSE MutToWrite("DeleteByIDs", s, ids, NoUpdates, <<DeleteSystemSubjectPKsFromCache>>)

\* a variant that leaves out the policies whose action id is unknown and
\* goes on to the write
AlterPreludeSkippingUnknownActions(op, s, fail, unknownAction) ==
    IF GetPKFails(s, fail = "GetPK") THEN MutReturn(op, "ErrGetPK")
    ELSE IF fail = "ListThinActionBySystem" THEN MutReturn(op, "ErrListThinActionBySystem")
    ELSE IF fail = "ListActionResourceTypeIDByActionSystem"
         THEN MutReturn(op, "ErrListActionResourceTypeIDByActionSystem")
    ELSE MutToWrite(op, s, {}, NoUpdates, <<DeleteSystemSubjectPKsFromCache>>)

\* querySubjectActionForAlterPolicies followed by convertToServicePolicies:
\* fail names the step that fails, unknownAction says that a policy of the
\* request names an action id that is not in actionMap
AlterPrelude(op, s, fail, unknownAction) ==
    IF GetPKFails(s, fail = "GetPK") THEN MutReturn(op, "ErrGetPK")
    ELSE IF fail = "ListThinActionBySystem" THEN MutReturn(op, "ErrListThinActionBySystem")
    ELSE IF fail = "ListActionResourceTypeIDByActionSystem"
         THEN MutReturn(op, "ErrListActionResourceTypeIDByActionSystem")
    ELSE IF unknownAction THEN MutReturn(op, ErrActionNotExists)
    ELSE MutToWrite(op, s, {}, NoUpdates, <<DeleteSystemSubjectPKsFromCache>>)

\* DeleteTemplatePolicies
DeleteTemplatePoliciesPrelude(s, dbFail) ==
    IF GetPKFails(s, dbFail) THEN MutReturn("DeleteTemplatePolicies", "ErrGetPK")
    ELSE MutToWrite("DeleteTemplatePolicies", s, {}, NoUpdates,
                    <<DeleteSystemSubjectPKsFromCache>>)

\* a variant that does not look at the subject of the policy
QualifiedUpdatesOfAnySubject(table, s, wanted) ==
    [p \in PolicyPKs |->
        IF wanted[p] > 0 /\ table[p] # Absent /\ table[p].expired_at < wanted[p]
        THEN wanted[p] ELSE 0]

\* UpdateSubjectPoliciesExpiredAt: wanted[p] is the requested expiry of
\* policy p, 0 when p is not in the request
QualifiedUpdates(table, s, wanted) ==
    [p \in PolicyPKs |->
        IF /\ wanted[p] > 0
           /\ table[p] # Absent
           /\ PolicySubject(p) = s
           /\ table[p].expired_at < wanted[p]
        THEN wanted[p] ELSE 0]

UpdateSubjectPoliciesExpiredAtPrelude(table, s, wanted, fail) ==
    LET op == "UpdateSubjectPoliciesExpiredAt"
        updatePolicies == QualifiedUpdates(table, s, wanted)
    IN  IF GetPKFails(s, fail = "GetPK") THEN MutReturn(op, "ErrGetPK")
        ELSE IF wanted = NoUpdates THEN MutReturn(op, NoErr)
        ELSE IF fail = "ListQueryByPKs" THEN MutReturn(op, "ErrListQueryByPKs")
        ELSE IF updatePolicies = NoUpdates THEN MutReturn(op, NoErr)
        ELSE IF fail = "ListThinActionByPKs" THEN MutReturn(op, "ErrListThinActionByPKs")
        ELSE MutToWrite(op, s, {}, updatePolicies, <<BatchDeleteSystemSubjectPKsFromCache>>)

\* DeleteByActionID: no deferred call is registered
DeleteByActionIDPrelude(a, dbFail) ==
    IF dbFail \/ a \notin ActionPKs THEN MutReturn("DeleteByActionID", "ErrGetActionPK")
    ELSE MutToWrite("DeleteByActionID", a, {}, NoUpdates, <<>>)


(* The storage writes of the policy service, by their effect on the rows.  *)

\* policyService.DeleteByPKs(subjectPK, policyIDs)
DeleteByPKs(table, s, ids) ==
    [p \in PolicyPKs |->
        IF p \in ids /\ PolicySubject(p) = s THEN Absent ELSE table[p]]

\* one create / update / delete request applied to the rows of subject s
\* with template t: a row is created when it does not exist yet, updated or
\* deleted when it exists
AlterRows(table, s, t, change, row) ==
    [p \in PolicyPKs |->
        IF PolicySubject(p) = s /\ PolicyTemplate(p) = t
        THEN CASE change[p] = "create" /\ table[p] = Absent -> row
               [] change[p] = "update" /\ table[p] # Absent -> row
               [] change[p] = "delete" -> Absent
               [] OTHER -> table[p]
        ELSE table[p]]

\* policyService.AlterCustomPolicies(subjectPK, cps, ups, deletePolicyIDs, ...)
AlterCustomPoliciesWrites(table, s) ==
    { AlterRows(table, s, CustomTemplate, change, row) :
        change \in [PolicyPKs -> {"keep", "create", "update", "delete"}], row \in Rows }

\* policyService.CreateAndDeleteTemplatePolicies(subjectPK, templateID, cps, deletePolicyIDs, ...)
CreateAndDeleteTemplatePoliciesWrites(table, s) ==
    { AlterRows(table, s, t, change, row) :
        t \in TemplateIDs, change \in [PolicyPKs -> {"keep", "create", "delete"}], row \in Rows }

\* policyService.UpdateTemplatePolicies(subjectPK, ups, ...)
UpdateTemplatePoliciesWrites(table, s) ==
    { AlterRows(table, s, t, change, row) :
        t \in TemplateIDs, change \in [PolicyPKs -> {"keep", "update"}], row \in Rows }

\* policyService.DeleteTemplatePolicies(subjectPK, templateID)
DeleteTemplatePoliciesWrites(table, s) ==
    { [p \in PolicyPKs |->
         IF PolicySubject(p) = s /\ PolicyTemplate(p) = t THEN Absent ELSE table[p]] :
        t \in TemplateIDs }

\* policyService.UpdateExpiredAt(updatePolicies)
UpdateExpiredAt(table, updates) ==
    [p \in PolicyPKs |->
        IF updates[p] > 0 /\ table[p] # Absent
        THEN [table[p] EXCEPT !.expired_at = updates[p]]
        ELSE table[p]]

\* policyService.DeleteByActionPK(actionPK)
DeleteByActionPK(table, a) ==
    [p \in PolicyPKs |-> IF PolicyAction(p) = a THEN Absent ELSE table[p]]

\* the tables the write of operation m can leave, over all its arguments
WriteOutcomes(table, m) ==
    CASE m.op = "DeleteByIDs" -> {DeleteByPKs(table, m.subject, m.ids)}
      [] m.op = "AlterCustomPolicies" -> AlterCustomPoliciesWrites(table, m.subject)
      [] m.op = "CreateAndDeleteTemplatePolicies" ->
            CreateAndDeleteTemplatePoliciesWrites(table, m.subject)
      [] m.op = "UpdateTemplatePolicies" -> UpdateTemplatePoliciesWrites(table, m.subject)
      [] m.op = "DeleteTemplatePolicies" -> DeleteTemplatePoliciesWrites(table, m.subject)
      [] m.op = "UpdateSubjectPoliciesExpiredAt" -> {UpdateExpiredAt(table, m.updates)}
      [] m.op = "DeleteByActionID" -> {DeleteByActionPK(table, m.subject)}

\* where the operation goes after its write: to its deferred calls, or out
AfterWrite(m) == IF m.deferred = <<>> THEN "done" ELSE "exit"

\* a variant in which the deletion of the expressions is the first call
\* registered, so that it runs after the invalidation of the policy cache
WriteSucceededExpressionsLast(m) ==
    LET written == [m EXCEPT !.calls = Append(@, StorageWrite),
                             !.ids = {}, !.updates = NoUpdates,
                             !.deferred = IF m.op = "AlterCustomPolicies"
                                          THEN <<BatchDeleteExpressionsFromCache>> \o @
                                          ELSE @]
    IN  [written EXCEPT !.pc = AfterWrite(written)]

\* the write succeeded; AlterCustomPolicies then defers the deletion of the
\* updated expressions from the expression cache
WriteSucceeded(m) ==
    LET written == [m EXCEPT !.calls = Append(@, StorageWrite),
                             !.ids = {}, !.updates = NoUpdates,
                             !.deferred = IF m.op = "AlterCustomPolicies"
                                          THEN Append(@, BatchDeleteExpressionsFromCache)
                                          ELSE @]
    IN  [written EXCEPT !.pc = AfterWrite(written)]

\* a variant in which a failed write returns without running what was deferred
WriteFailedSkippingDeferred(m) ==
    [m EXCEPT !.calls = Append(@, StorageWrite),
              !.ids = {}, !.updates = NoUpdates,
              !.err = "ErrWrite",
              !.deferred = << >>,
              !.pc = "done"]

\* the write failed: the error is returned, the calls deferred so far still run
WriteFailed(m) ==
    [m EXCEPT !.calls = Append(@, StorageWrite),
              !.ids = {}, !.updates = NoUpdates,
              !.err = "ErrWrite",
              !.pc = AfterWrite(m)]

\* a variant in which the invalidation is called where it is registered
RunnableOnceRegistered(m) == m.pc \in {"write", "exit"}

\* deferred calls run when the function returns
DeferredRunnable(m) == m.pc = "exit"

\* policy.DeleteSystemSubjectPKsFromCache(system, [subjectPK]): the entries
\* of the subject are removed for every action pk
DeleteSubjectFromCache(cache, s) ==
    [k \in CacheKeys |-> IF k[1] = s THEN NoEntry ELSE cache[k]]

CacheAfterCall(cache, call, s) ==
    IF call \in PolicyCacheDeletes THEN DeleteSubjectFromCache(cache, s) ELSE cache


----------------------------------------------------------------------------
(* The request and its PIP / evaluation helpers.                           *)

\* the resources requests name: two jobs of the system, a host of another
Job1 == [system |-> System, type |-> "job", id |-> "j1"]

Job2 == [system |-> System, type |-> "job", id |-> "j2"]

Host == [system |-> RemoteSystem, type |-> "host", id |-> "h1"]

ResourceLists == {<< >>, <<Job1>>, <<Job2>>, <<Host>>, <<Job1, Host>>, <<Job2, Host>>}

JobType == [system |-> System, type |-> "job"]

HostType == [system |-> RemoteSystem, type |-> "host"]

\* the resource types the action declares (action.Attribute.GetResourceTypes)
ActionResourceTypes(a) == IF a = "a1" THEN {JobType} ELSE {JobType, HostType}

TypesOf(rs) == { [system |-> rs[i].system, type |-> rs[i].type] : i \in 1..Len(rs) }

\* r.ValidateActionResource(): the resources are exactly the declared types
ValidateActionResource(a, rs) ==
    /\ Len(rs) = Cardinality(ActionResourceTypes(a))
    /\ TypesOf(rs) = ActionResourceTypes(a)

\* r.ValidateActionRemoteResource(): the resources are exactly the declared
\* types that belong to another system
ValidateActionRemoteResource(a, rs) ==
    LET remote == { t \in ActionResourceTypes(a) : t.system # System }
    IN  /\ Len(rs) = Cardinality(remote)
        /\ TypesOf(rs) = remote

HasRemoteResources(rs) == \E i \in 1..Len(rs) : rs[i].system # System

HasSingleLocalResource(rs) == Len(rs) = 1 /\ ~HasRemoteResources(rs)

\* r.GetSortedResources(): by (system, type); bk_cmdb sorts before bk_iam
GetSortedResources(rs) ==
    IF Len(rs) = 2 /\ rs[1].system = System /\ rs[2].system # System
    THEN <<rs[2], rs[1]>> ELSE rs

\* the expression of policy p evaluated in the context of one resource: the
\* expression of every policy is StringEquals id ["j1"] on the job type,
\* and Any on the host type when the policy's action declares it; a
\* resource type the expression has no element for evaluates false
ExprTrue(p, resource) ==
    \/ resource.type = "job" /\ resource.id = "j1"
    \/ resource.type = "host" /\ HostType \in ActionResourceTypes(PolicyAction(p))

\* evaluation.EvalPolicies: some policy is true on the resource
EvalPoliciesPass(resource, policies) ==
    \E p \in policies : ExprTrue(p.pk, resource)

\* evaluation.FilterPolicies: the policies that are true on the resource
FilterPolicies(resource, policies) ==
    { p \in policies : ExprTrue(p.pk, resource) }

\* a variant that loses sql.ErrNoRows in the error it returns
FillActionDetailWrapped(a, dbFail) ==
    IF dbFail \/ a \notin ActionPKs THEN "err" ELSE "ok"

\* pip.GetActionDetail as fillActionDetail sees it
FillActionDetail(a, dbFail) ==
    IF dbFail THEN "err" ELSE IF a \in ActionPKs THEN "ok" ELSE "norows"

\* a variant that loses sql.ErrNoRows in the error it returns
FillSubjectDetailWrapped(s, dbFail) ==
    IF dbFail \/ s \notin SubjectPKs THEN "err" ELSE "ok"

\* pip.GetSubjectPK and pip.GetSubjectDetail as fillSubjectDetail sees them
FillSubjectDetail(s, dbFail) ==
    IF dbFail THEN "err" ELSE IF s \in SubjectPKs THEN "ok" ELSE "norows"

\* the calls of a request, as they are logged in req.calls
CallFillActionDetail == "fillActionDetail"
CallValidateActionResource == "ValidateActionResource"
CallValidateActionRemoteResource == "ValidateActionRemoteResource"
CallFillSubjectDetail == "fillSubjectDetail"
CallQueryPolicies == "queryPolicies"
CallEvalPolicies == "evaluation.EvalPolicies"
CallFilterPolicies == "filterPoliciesByEvalResources"
CallQueryExtResourceAttrs == "queryExtResourceAttrs"
CallPoliciesTranslate == "translate.PoliciesTranslate"

EvaluationCalls == {CallEvalPolicies, CallFilterPolicies, CallPoliciesTranslate,
                    CallQueryExtResourceAttrs}

\* a variant that returns an empty list without ErrNoPolicies
queryPoliciesWithoutSentinel(list, listFail) ==
    IF listFail THEN [policies |-> {}, err |-> "ErrListBySubjectAction"]
    ELSE [policies |-> list, err |-> NoErr]

\* queryPolicies: the list of ListBySubjectAction, ErrNoPolicies when empty
queryPolicies(list, listFail) ==
    IF listFail THEN [policies |-> {}, err |-> "ErrListBySubjectAction"]
    ELSE IF list = {} THEN [policies |-> {}, err |-> ErrNoPolicies]
    ELSE [policies |-> list, err |-> NoErr]

RECURSIVE FoldResources(_, _, _)
FoldResources(rs, i, policies) ==
    IF i > Len(rs) THEN [policies |-> policies, err |-> NoErr]
    ELSE LET filtered == FilterPolicies(rs[i], policies)
         IN  IF filtered = {} THEN [policies |-> {}, err |-> ErrNoPolicies]
             ELSE FoldResources(rs, i + 1, filtered)

\* a variant that answers a failed fetch of the remote attributes with
\* ErrNoPolicies
filterPoliciesByEvalResourcesDenying(rs, policies, fail) ==
    IF HasRemoteResources(rs) /\ fail = "fillRemoteResourceAttrs"
    THEN [policies |-> {}, err |-> ErrNoPolicies]
    ELSE IF rs # << >> /\ fail = "FilterPolicies"
    THEN [policies |-> {}, err |-> "ErrFilterPolicies"]
    ELSE FoldResources(GetSortedResources(rs), 1, policies)

\* filterPoliciesByEvalResources; fail names the call that fails, if any
filterPoliciesByEvalResources(rs, policies, fail) ==
    IF HasRemoteResources(rs) /\ fail = "fillRemoteResourceAttrs"
    THEN [policies |-> {}, err |-> "ErrFillRemoteResourceAttrs"]
    ELSE IF rs # << >> /\ fail = "FilterPolicies"
    THEN [policies |-> {}, err |-> "ErrFilterPolicies"]
    ELSE FoldResources(GetSortedResources(rs), 1, policies)

----------------------------------------------------------------------------
(* The evaluation of a policy list kept in its order.  A policy is the     *)
(* condition of its expression on the job type (the id it asks for, any,   *)
(* or bad when the expression does not parse) and on the host type.        *)

PolicyKinds == [job : {"j1", "j2", "any", "bad"}, host : {"any", "none"}]

\* the lists of at most n policies
RECURSIVE PolicySeqs(_)
PolicySeqs(n) ==
    IF n = 0 THEN {<< >>}
    ELSE LET shorter == PolicySeqs(n - 1)
         IN  shorter \cup { Append(ps, k) : ps \in shorter, k \in PolicyKinds }

\* one policy evaluated on one resource; an expression that does not parse
\* is logged and counts as not passing
ExprHolds(p, resource) ==
    /\ p.job # "bad"
    /\ IF resource.type = "job" THEN p.job \in {"any", resource.id}
       ELSE p.host = "any"

\* evaluation.EvalPolicies: the list is walked in its order from policy i on
\* and the first policy that passes decides
RECURSIVE EvalPoliciesInOrder(_, _, _)
EvalPoliciesInOrder(resource, policies, i) ==
    IF i > Len(policies) THEN FALSE
    ELSE IF ExprHolds(policies[i], resource) THEN TRUE
    ELSE EvalPoliciesInOrder(resource, policies, i + 1)

\* evaluation.FilterPolicies: the policies that pass, in the order of the list
FilterPoliciesInOrder(resource, policies) ==
    SelectSeq(policies, LAMBDA p : ExprHolds(p, resource))

\* a variant of the loop that goes on with an empty list
RECURSIVE FoldResourcesToTheEnd(_, _, _)
FoldResourcesToTheEnd(rs, i, policies) ==
    IF i > Len(rs)
    THEN [policies |-> policies, evaluated |-> Len(rs),
          err |-> IF policies = << >> /\ rs # << >> THEN ErrNoPolicies ELSE NoErr]
    ELSE FoldResourcesToTheEnd(rs, i + 1, FilterPoliciesInOrder(rs[i], policies))

\* the loop of filterPoliciesByEvalResources from resource i on; evaluated
\* counts the resources FilterPolicies was called for
RECURSIVE FoldResourcesInOrder(_, _, _)
FoldResourcesInOrder(rs, i, policies) ==
    IF i > Len(rs) THEN [policies |-> policies, evaluated |-> Len(rs), err |-> NoErr]
    ELSE LET filtered == FilterPoliciesInOrder(rs[i], policies)
         IN  IF filtered = << >>
             THEN [policies |-> << >>, evaluated |-> i, err |-> ErrNoPolicies]
             ELSE FoldResourcesInOrder(rs, i + 1, filtered)

\* filterPoliciesByEvalResources on a list
filterPoliciesByEvalResourcesInOrder(rs, policies, remoteFail) ==
    IF HasRemoteResources(rs) /\ remoteFail
    THEN [policies |-> << >>, evaluated |-> 0, err |-> "ErrFillRemoteResourceAttrs"]
    ELSE FoldResourcesInOrder(GetSortedResources(rs), 1, policies)

\* a variant of Eval that passes whenever the filter itself did not fail
EvalAnswerIgnoringSentinel(rs, policies, remoteFail) ==
    LET f == filterPoliciesByEvalResourcesInOrder(rs, policies, remoteFail)
    IN  IF policies = << >> THEN [val |-> "false", err |-> NoErr]
        ELSE IF HasSingleLocalResource(rs)
             THEN [val |-> IF EvalPoliciesInOrder(GetSortedResources(rs)[1], policies, 1)
                           THEN "true" ELSE "false",
                   err |-> NoErr]
        ELSE IF f.err \notin {NoErr, ErrNoPolicies} THEN [val |-> "false", err |-> f.err]
        ELSE [val |-> "true", err |-> NoErr]

\* Eval from the list of queryPolicies on: an empty list is ErrNoPolicies and
\* a deny; one local resource is decided by evaluation.EvalPolicies, every
\* other request by filterPoliciesByEvalResources
EvalAnswer(rs, policies, remoteFail) ==
    LET f == filterPoliciesByEvalResourcesInOrder(rs, policies, remoteFail)
    IN  IF policies = << >> THEN [val |-> "false", err |-> NoErr]
        ELSE IF HasSingleLocalResource(rs)
             THEN [val |-> IF EvalPoliciesInOrder(GetSortedResources(rs)[1], policies, 1)
                           THEN "true" ELSE "false",
                   err |-> NoErr]
        ELSE IF f.err = ErrNoPolicies THEN [val |-> "false", err |-> NoErr]
        ELSE IF f.err # NoErr THEN [val |-> "false", err |-> f.err]
        ELSE [val |-> "true", err |-> NoErr]

\* pdp.EvalPolicies(req, policies): the policies are the caller's
EvalPolicies(rs, policies, remoteFail) ==
    LET f == filterPoliciesByEvalResourcesInOrder(rs, policies, remoteFail)
    IN  IF f.err = ErrNoPolicies THEN [val |-> "false", err |-> NoErr]
        ELSE IF f.err # NoErr THEN [val |-> "false", err |-> f.err]
        ELSE [val |-> "true", err |-> NoErr]


----------------------------------------------------------------------------
(* The PDP entrance.  Each operation is split where it calls the policy    *)
(* retrieval: XPrelude is the part before queryPolicies, XFinish the part  *)
(* from the result of queryPolicies to the return.  fail names the call    *)
(* that fails in this request, if any.                                     *)

Ret(val, err) == [val |-> val, ext |-> "nil", err |-> err]

NoRet == Ret("none", NoErr)

Stop(calls, ret) == [go |-> FALSE, calls |-> calls, ret |-> ret]

Go(calls) == [go |-> TRUE, calls |-> calls, ret |-> NoRet]

\* a variant of Eval that looks the subject up before it validates
EvalPreludeSubjectFirst(q, fail) ==
    LET a == FillActionDetail(q.action, fail = "GetActionDetail")
        s == FillSubjectDetail(q.subject, fail = "GetSubjectDetail")
        c1 == <<CallFillActionDetail>>
        c2 == <<CallFillActionDetail, CallFillSubjectDetail>>
        c3 == <<CallFillActionDetail, CallFillSubjectDetail, CallValidateActionResource>>
    IN  IF a = "norows" THEN Stop(c1, Ret("false", ErrInvalidAction))
        ELSE IF a = "err" THEN Stop(c1, Ret("false", "ErrFillActionDetail"))
        ELSE IF s = "norows" THEN Stop(c2, Ret("false", NoErr))
        ELSE IF s = "err" THEN Stop(c2, Ret("false", "ErrFillSubjectDetail"))
        ELSE IF ~ValidateActionResource(q.action, q.resources)
             THEN Stop(c3, Ret("false", ErrInvalidActionResource))
        ELSE Go(c3)

\* Eval, steps 1 to 3
EvalPrelude(q, fail) ==
    LET a == FillActionDetail(q.action, fail = "GetActionDetail")
        s == FillSubjectDetail(q.subject, fail = "GetSubjectDetail")
        c1 == <<CallFillActionDetail>>
        c2 == <<CallFillActionDetail, CallValidateActionResource>>
        c3 == <<CallFillActionDetail, CallValidateActionResource, CallFillSubjectDetail>>
    IN  IF a = "norows" THEN Stop(c1, Ret("false", ErrInvalidAction))
        ELSE IF a = "err" THEN Stop(c1, Ret("false", "ErrFillActionDetail"))
        ELSE IF ~ValidateActionResource(q.action, q.resources)
             THEN Stop(c2, Ret("false", ErrInvalidActionResource))
        ELSE IF s = "norows" THEN Stop(c3, Ret("false", NoErr))
        ELSE IF s = "err" THEN Stop(c3, Ret("false", "ErrFillSubjectDetail"))
        ELSE Go(c3)

\* Eval, steps 4 to 6
EvalFinish(q, list, listFail, fail) ==
    LET qp == queryPolicies(list, listFail)
        resource == GetSortedResources(q.resources)[1]
        f == filterPoliciesByEvalResources(q.resources, qp.policies, fail)
    IN  IF qp.err = ErrNoPolicies THEN [calls |-> << >>, ret |-> Ret("false", NoErr)]
        ELSE IF qp.err # NoErr THEN [calls |-> << >>, ret |-> Ret("false", qp.err)]
        ELSE IF HasSingleLocalResource(q.resources)
             THEN IF fail = "EvalPolicies"
                  THEN [calls |-> <<CallEvalPolicies>>, ret |-> Ret("false", "ErrEvalPolicies")]
                  ELSE [calls |-> <<CallEvalPolicies>>,
                        ret |-> Ret(IF EvalPoliciesPass(resource, qp.policies)
                                    THEN "true" ELSE "false", NoErr)]
        ELSE IF f.err = ErrNoPolicies
             THEN [calls |-> <<CallFilterPolicies>>, ret |-> Ret("false", NoErr)]
        ELSE IF f.err # NoErr
             THEN [calls |-> <<CallFilterPolicies>>, ret |-> Ret("false", f.err)]
        ELSE [calls |-> <<CallFilterPolicies>>, ret |-> Ret("true", NoErr)]

\* a variant of QueryAuthPolicies that treats an unknown subject as Eval does
QueryAuthPoliciesPreludeLenient(q, fail) ==
    LET a == FillActionDetail(q.action, fail = "GetActionDetail")
        s == FillSubjectDetail(q.subject, fail = "GetSubjectDetail")
        c1 == <<CallFillActionDetail>>
        c3 == <<CallFillActionDetail, CallFillSubjectDetail>>
    IN  IF a = "norows" THEN Stop(c1, Ret("nil", ErrInvalidAction))
        ELSE IF a = "err" THEN Stop(c1, Ret("nil", "ErrFillActionDetail"))
        ELSE IF s = "norows" THEN Stop(c3, Ret("nil", NoErr))
        ELSE IF s = "err" THEN Stop(c3, Ret("nil", "ErrFillSubjectDetail"))
        ELSE Go(c3)

\* QueryAuthPolicies, steps 1 and 3
QueryAuthPoliciesPrelude(q, fail) ==
    LET a == FillActionDetail(q.action, fail = "GetActionDetail")
        s == FillSubjectDetail(q.subject, fail = "GetSubjectDetail")
        c1 == <<CallFillActionDetail>>
        c3 == <<CallFillActionDetail, CallFillSubjectDetail>>
    IN  IF a = "norows" THEN Stop(c1, Ret("nil", ErrInvalidAction))
        ELSE IF a = "err" THEN Stop(c1, Ret("nil", "ErrFillActionDetail"))
        ELSE IF s = "norows" THEN Stop(c3, Ret("nil", ErrSubjectNotExists))
        ELSE IF s = "err" THEN Stop(c3, Ret("nil", "ErrFillSubjectDetail"))
        ELSE Go(c3)

\* QueryAuthPolicies, step 4: the error of queryPolicies is returned as it
\* is when it is ErrNoPolicies, wrapped otherwise
QueryAuthPoliciesFinish(q, list, listFail, fail) ==
    LET qp == queryPolicies(list, listFail)
    IN  IF qp.err = ErrNoPolicies THEN [calls |-> << >>, ret |-> Ret("nil", ErrNoPolicies)]
        ELSE IF qp.err # NoErr THEN [calls |-> << >>, ret |-> Ret("nil", qp.err)]
        ELSE [calls |-> << >>, ret |-> Ret("policies", NoErr)]


Out(policies, err) == [policies |-> policies, err |-> err]

\* queryFilterPolicies, steps 1 to 3: out is what it returns when it stops
queryFilterPoliciesPrelude(q, willCheckRemoteResource, fail) ==
    LET a == FillActionDetail(q.action, fail = "GetActionDetail")
        s == FillSubjectDetail(q.subject, fail = "GetSubjectDetail")
        c1 == <<CallFillActionDetail>>
        c2 == IF willCheckRemoteResource
              THEN <<CallFillActionDetail, CallValidateActionRemoteResource>>
              ELSE <<CallFillActionDetail>>
        c3 == Append(c2, CallFillSubjectDetail)
    IN  IF a = "norows" THEN [go |-> FALSE, calls |-> c1, out |-> Out({}, ErrInvalidAction)]
        ELSE IF a = "err"
             THEN [go |-> FALSE, calls |-> c1, out |-> Out({}, "ErrFillActionDetail")]
        ELSE IF willCheckRemoteResource /\ ~ValidateActionRemoteResource(q.action, q.resources)
             THEN [go |-> FALSE, calls |-> c2, out |-> Out({}, ErrInvalidActionResource)]
        ELSE IF s = "norows" THEN [go |-> FALSE, calls |-> c3, out |-> Out({}, NoErr)]
        ELSE IF s = "err"
             THEN [go |-> FALSE, calls |-> c3, out |-> Out({}, "ErrFillSubjectDetail")]
        ELSE [go |-> TRUE, calls |-> c3, out |-> Out({}, NoErr)]

\* queryFilterPolicies, steps 4 and 5
queryFilterPoliciesFinish(q, list, listFail, fail) ==
    LET qp == queryPolicies(list, listFail)
        f == filterPoliciesByEvalResources(q.resources, qp.policies, fail)
    IN  IF qp.err = ErrNoPolicies THEN [calls |-> << >>, out |-> Out({}, NoErr)]
        ELSE IF qp.err # NoErr THEN [calls |-> << >>, out |-> Out({}, qp.err)]
        ELSE IF f.err = ErrNoPolicies
             THEN [calls |-> <<CallFilterPolicies>>, out |-> Out({}, NoErr)]
        ELSE IF f.err # NoErr THEN [calls |-> <<CallFilterPolicies>>, out |-> Out({}, f.err)]
        ELSE [calls |-> <<CallFilterPolicies>>, out |-> Out(f.policies, NoErr)]

\* Query, from the return of queryFilterPolicies on
QueryReturn(out, fail) ==
    IF out.err # NoErr THEN [calls |-> << >>, ret |-> Ret("nil", out.err)]
    ELSE IF out.policies = {} THEN [calls |-> << >>, ret |-> Ret("{}", NoErr)]
    ELSE IF fail = "GetQueryResourceTypes"
         THEN [calls |-> << >>, ret |-> Ret("nil", "ErrGetQueryResourceTypes")]
    ELSE IF fail = "PoliciesTranslate"
         THEN [calls |-> <<CallPoliciesTranslate>>, ret |-> Ret("nil", "ErrPoliciesTranslate")]
    ELSE [calls |-> <<CallPoliciesTranslate>>, ret |-> Ret("expr", NoErr)]

QueryPrelude(q, fail) ==
    LET pre == queryFilterPoliciesPrelude(q, q.willCheck, fail)
    IN  IF pre.go THEN Go(pre.calls) ELSE Stop(pre.calls, QueryReturn(pre.out, fail).ret)

QueryFinish(q, list, listFail, fail) ==
    LET fin == queryFilterPoliciesFinish(q, list, listFail, fail)
        r == QueryReturn(fin.out, fail)
    IN  [calls |-> fin.calls \o r.calls, ret |-> r.ret]

\* QueryByExtResources, from the return of queryFilterPolicies on; ext says
\* whether the request names an ext resource
QueryByExtResourcesReturn(ext, out, fail) ==
    LET c == IF ext THEN <<CallQueryExtResourceAttrs>> ELSE << >>
    IN  IF out.err # NoErr THEN [calls |-> << >>, ret |-> Ret("nil", out.err)]
        ELSE IF out.policies = {}
             THEN [calls |-> << >>, ret |-> [val |-> "{}", ext |-> "empty", err |-> NoErr]]
        ELSE IF ext /\ fail = "queryExtResourceAttrs"
             THEN [calls |-> c, ret |-> Ret("nil", "ErrQueryExtResourceAttrs")]
        ELSE IF fail = "GetQueryResourceTypes"
             THEN [calls |-> c, ret |-> Ret("nil", "ErrGetQueryResourceTypes")]
        ELSE IF fail = "PoliciesTranslate"
             THEN [calls |-> Append(c, CallPoliciesTranslate),
                   ret |-> Ret("nil", "ErrPoliciesTranslate")]
        ELSE [calls |-> Append(c, CallPoliciesTranslate),
              ret |-> [val |-> "expr", ext |-> "attrs", err |-> NoErr]]

\* a variant of QueryByExtResources that asks for the remote resource check
QueryByExtResourcesPreludeChecking(q, fail) ==
    LET pre == queryFilterPoliciesPrelude(q, TRUE, fail)
    IN  IF pre.go THEN Go(pre.calls)
        ELSE Stop(pre.calls, QueryByExtResourcesReturn(q.ext, pre.out, fail).ret)

\* QueryByExtResources: queryFilterPolicies is called with
\* willCheckRemoteResource false
QueryByExtResourcesPrelude(q, fail) ==
    LET pre == queryFilterPoliciesPrelude(q, FALSE, fail)
    IN  IF pre.go THEN Go(pre.calls)
        ELSE Stop(pre.calls, QueryByExtResourcesReturn(q.ext, pre.out, fail).ret)

QueryByExtResourcesFinish(q, list, listFail, fail) ==
    LET fin == queryFilterPoliciesFinish(q, list, listFail, fail)
        r == QueryByExtResourcesReturn(q.ext, fin.out, fail)
    IN  [calls |-> fin.calls \o r.calls, ret |-> r.ret]

Prelude(q, fail) ==
    CASE q.op = "Eval" -> EvalPrelude(q, fail)
      [] q.op = "Query" -> QueryPrelude(q, fail)
      [] q.op = "QueryByExtResources" -> QueryByExtResourcesPrelude(q, fail)
      [] q.op = "QueryAuthPolicies" -> QueryAuthPoliciesPrelude(q, fail)

Finish(q, list, listFail, fail) ==
    CASE q.op = "Eval" -> EvalFinish(q, list, listFail, fail)
      [] q.op = "Query" -> QueryFinish(q, list, listFail, fail)
      [] q.op = "QueryByExtResources" -> QueryByExtResourcesFinish(q, list, listFail, fail)
      [] q.op = "QueryAuthPolicies" -> QueryAuthPoliciesFinish(q, list, listFail, fail)


----------------------------------------------------------------------------
(* The decision request in flight.  Policy retrieval (ListBySubjectAction) *)
(* probes the policy cache; on a miss, or when the request bypasses the    *)
(* cache, it reads storage and then writes what it read into the cache.    *)

Ops == {"Eval", "Query", "QueryByExtResources", "QueryAuthPolicies"}

\* the requests of the entrance; willCheck is the flag of Query alone, ext
\* the ext resources of QueryByExtResources alone, and QueryAuthPolicies is
\* called without resources
RequestInputs ==
    { q \in [op : Ops, subject : SubjectIDs, action : ActionIDs,
             resources : ResourceLists, willCheck : BOOLEAN,
             withoutCache : BOOLEAN, ext : BOOLEAN] :
        /\ q.willCheck => q.op = "Query"
        /\ q.ext => q.op = "QueryByExtResources"
        /\ q.op = "QueryAuthPolicies" => q.resources = << >> }

\* the requests that run next to the mutating operations: Eval through the
\* cache, for the subject that has policies
EvalInputs ==
    { q \in RequestInputs : /\ q.op = "Eval"
                            /\ q.subject = "u1"
                            /\ ~q.withoutCache
                            /\ q.action \in ActionPKs
                            /\ ValidateActionResource(q.action, q.resources) }

PreludeFails == {"none", "GetActionDetail", "GetSubjectDetail"}

FinishFails == {"none", "EvalPolicies", "fillRemoteResourceAttrs", "FilterPolicies",
                "queryExtResourceAttrs", "GetQueryResourceTypes", "PoliciesTranslate"}

IdleReq ==
    [op |-> "none", subject |-> "none", action |-> "none", resources |-> << >>,
     willCheck |-> FALSE, withoutCache |-> FALSE, ext |-> FALSE,
     fail |-> "none", pc |-> "idle", calls |-> << >>, policies |-> {}, ret |-> NoRet,
     fresh |-> FALSE]

\* the request in flight: fail is the PIP call that fails in it, calls the
\* calls it has made; fresh says that no mutating operation was between its
\* write and its return when the request started, and that none has written
\* since
NewReq(q, fail, calls, fresh) ==
    [op |-> q.op, subject |-> q.subject, action |-> q.action, resources |-> q.resources,
     willCheck |-> q.willCheck, withoutCache |-> q.withoutCache, ext |-> q.ext,
     fail |-> fail, pc |-> "storage", calls |-> calls, policies |-> {}, ret |-> NoRet,
     fresh |-> fresh]

\* the request returns, with the list its policy retrieval gave it
Finished(r, list, listFail, fail) ==
    LET fin == Finish(r, list, listFail, fail)
    IN  [r EXCEPT !.pc = "done", !.policies = list,
                  !.calls = @ \o fin.calls, !.ret = fin.ret]

\* the probe of the policy cache for the key of the request
CacheHit(cache, q) ==
    /\ ~q.withoutCache
    /\ <<q.subject, q.action>> \in CacheKeys
    /\ cache[<<q.subject, q.action>>].hit

BeginRequest(q, fail, ffail) ==
    /\ req.pc = "idle"
    /\ LET pre == Prelude(q, fail)
           r == NewReq(q, fail, pre.calls, mut.pc # "exit")
           retrieving == [r EXCEPT !.calls = Append(@, CallQueryPolicies)]
       IN  req' = IF ~pre.go THEN [r EXCEPT !.pc = "done", !.ret = pre.ret]
                  ELSE IF CacheHit(policyCache, q)
                       THEN Finished(retrieving,
                                     policyCache[<<q.subject, q.action>>].policies,
                                     FALSE, ffail)
                  ELSE retrieving
    /\ UNCHANGED <<policyTable, policyCache, mut>>
    /\ UNCHANGED <<subjectVars, invocation, groupVars>>

\* the storage query of the policy rows of the key
ReadStorage ==
    /\ req.pc = "storage"
    /\ \E storageFail \in BOOLEAN :
         req' = IF storageFail THEN Finished(req, {}, TRUE, "none")
                ELSE [req EXCEPT !.pc = "fill",
                                 !.policies = StoredPolicies(policyTable, req.subject, req.action)]
    /\ UNCHANGED <<policyTable, policyCache, mut>>
    /\ UNCHANGED <<subjectVars, invocation, groupVars>>

\* the list read from storage is written into the cache (a failed cache
\* write is ignored) and the request goes on with it
FillCache ==
    /\ req.pc = "fill"
    /\ \E cacheWriteOK \in BOOLEAN :
         policyCache' = IF cacheWriteOK
                        THEN [policyCache EXCEPT ![<<req.subject, req.action>>] = Entry(req.policies)]
                        ELSE policyCache
    /\ \E ffail \in FinishFails : req' = Finished(req, req.policies, FALSE, ffail)
    /\ UNCHANGED <<policyTable, mut>>
    /\ UNCHANGED <<subjectVars, invocation, groupVars>>

ReturnRequest ==
    /\ req.pc = "done"
    /\ req' = IdleReq
    /\ UNCHANGED <<policyTable, policyCache, mut>>
    /\ UNCHANGED <<subjectVars, invocation, groupVars>>

\* an entry leaves the cache when its TTL is over
ExpireCacheEntry ==
    /\ \E k \in CacheKeys :
         /\ policyCache[k].hit
         /\ policyCache' = [policyCache EXCEPT ![k] = NoEntry]
    /\ UNCHANGED <<policyTable, req, mut>>
    /\ UNCHANGED <<subjectVars, invocation, groupVars>>

----------------------------------------------------------------------------
(* The mutating operation in flight.                                       *)

AlterFails == {"none", "GetPK", "ListThinActionBySystem",
               "ListActionResourceTypeIDByActionSystem"}

RenewFails == {"none", "GetPK", "ListQueryByPKs", "ListThinActionByPKs"}

DeleteByIDs ==
    /\ mut.pc = "idle"
    /\ \E s \in SubjectIDs, ids \in SUBSET PolicyPKs, dbFail \in BOOLEAN :
         mut' = DeleteByIDsPrelude(s, ids, dbFail)
    /\ UNCHANGED <<policyTable, policyCache, req>>
    /\ UNCHANGED <<subjectVars, invocation, groupVars>>

AlterCustomPolicies ==
    /\ mut.pc = "idle"
    /\ \E s \in SubjectIDs, fail \in AlterFails, unknownAction \in BOOLEAN :
         mut' = AlterPrelude("AlterCustomPolicies", s, fail, unknownAction)
    /\ UNCHANGED <<policyTable, policyCache, req>>
    /\ UNCHANGED <<subjectVars, invocation, groupVars>>

CreateAndDeleteTemplatePolicies ==
    /\ mut.pc = "idle"
    /\ \E s \in SubjectIDs, fail \in AlterFails, unknownAction \in BOOLEAN :
         mut' = AlterPrelude("CreateAndDeleteTemplatePolicies", s, fail, unknownAction)
    /\ UNCHANGED <<policyTable, policyCache, req>>
    /\ UNCHANGED <<subjectVars, invocation, groupVars>>

UpdateTemplatePolicies ==
    /\ mut.pc = "idle"
    /\ \E s \in SubjectIDs, fail \in AlterFails, unknownAction \in BOOLEAN :
         mut' = AlterPrelude("UpdateTemplatePolicies", s, fail, unknownAction)
    /\ UNCHANGED <<policyTable, policyCache, req>>
    /\ UNCHANGED <<subjectVars, invocation, groupVars>>

DeleteTemplatePolicies ==
    /\ mut.pc = "idle"
    /\ \E s \in SubjectIDs, dbFail \in BOOLEAN :
         mut' = DeleteTemplatePoliciesPrelude(s, dbFail)
    /\ UNCHANGED <<policyTable, policyCache, req>>
    /\ UNCHANGED <<subjectVars, invocation, groupVars>>

UpdateSubjectPoliciesExpiredAt ==
    /\ mut.pc = "idle"
    /\ \E s \in SubjectIDs, wanted \in [PolicyPKs -> 0..MaxExpiredAt], fail \in RenewFails :
         mut' = UpdateSubjectPoliciesExpiredAtPrelude(policyTable, s, wanted, fail)
    /\ UNCHANGED <<policyTable, policyCache, req>>
    /\ UNCHANGED <<subjectVars, invocation, groupVars>>

DeleteByActionID ==
    /\ mut.pc = "idle"
    /\ \E a \in ActionIDs, dbFail \in BOOLEAN :
         mut' = DeleteByActionIDPrelude(a, dbFail)
    /\ UNCHANGED <<policyTable, policyCache, req>>
    /\ UNCHANGED <<subjectVars, invocation, groupVars>>

\* the storage write of the operation: it commits or it fails
Write ==
    /\ mut.pc = "write"
    /\ \/ /\ policyTable' \in WriteOutcomes(policyTable, mut)
          /\ mut' = WriteSucceeded(mut)
       \/ /\ policyTable' = policyTable
          /\ mut' = WriteFailed(mut)
    /\ req' = [req EXCEPT !.fresh = FALSE]
    /\ UNCHANGED policyCache
    /\ UNCHANGED <<subjectVars, invocation, groupVars>>

\* the function returns: its deferred calls run, the last registered first
RunDeferred ==
    /\ DeferredRunnable(mut)
    /\ mut.deferred # << >>
    /\ LET n == Len(mut.deferred)
           call == mut.deferred[n]
       IN  /\ policyCache' = CacheAfterCall(policyCache, call, mut.subject)
           /\ mut' = [mut EXCEPT !.deferred = SubSeq(@, 1, n - 1),
                                 !.calls = Append(@, call),
                                 !.pc = IF mut.pc = "exit" /\ n = 1 THEN "done" ELSE @]
    /\ UNCHANGED <<policyTable, req>>
    /\ UNCHANGED <<subjectVars, invocation, groupVars>>

ReturnMutation ==
    /\ mut.pc = "done"
    /\ mut' = IdleMut
    /\ UNCHANGED <<policyTable, policyCache, req>>
    /\ UNCHANGED <<subjectVars, invocation, groupVars>>

----------------------------------------------------------------------------
(* The subject handlers BatchDeleteSubjects and                            *)
(* UpdateSubjectMembersExpiredAt, with the caches they clear.              *)

\* the systems systemSVC.ListAll() returns
Systems == {System, RemoteSystem}

\* the subjects of type group and of type user; the users are members of
\* group g1
GroupPKs == {"g1", "g2"}

UserPKs == {"m1"}

\* the subject table is a record: exists, the subjects that exist, and
\* expired_at, for every user the policy_expired_at of its relation to g1

IdleHandler ==
    [pc |-> "idle", op |-> "none", subjects |-> {}, groupPKs |-> {}, deleted |-> {},
     wanted |-> [m \in UserPKs |-> 0], calls |-> << >>, status |-> "none"]

\* the response of a handler that stops on its request body
BadRequest(op) == [IdleHandler EXCEPT !.pc = "done", !.op = op, !.status = "BadRequest"]

\* BatchDeleteSubjects up to svc.BulkDelete: the pk of every subject of type
\* group is looked up; a lookup that fails is logged and the group skipped
BatchDeleteSubjectsPrelude(table, subjects, lookupFails, bindFail) ==
    IF bindFail \/ subjects = {} THEN BadRequest("BatchDeleteSubjects")
    ELSE [IdleHandler EXCEPT
            !.pc = "delete", !.op = "BatchDeleteSubjects", !.subjects = subjects,
            !.groupPKs = { g \in subjects \cap GroupPKs :
                            g \in table.exists /\ g \notin lookupFails },
            !.calls = IF subjects \cap GroupPKs = {} THEN << >> ELSE <<"cacheimpls.GetSubjectPK">>]

\* cacheimpls.BatchDeleteSubjectCache(pks)
BatchDeleteSubjectCache(cache, pks) ==
    [m \in UserPKs |-> IF m \in pks THEN 0 ELSE cache[m]]

\* deleteGroupPKPolicyCache(groupPKs): a failure of systemSVC.ListAll is
\* logged and nothing is deleted; a failure of the cache delete is logged
deleteGroupPKPolicyCache(cache, groupPKs, listAllFail, cacheFail) ==
    IF listAllFail \/ cacheFail THEN cache
    ELSE { k \in cache : k[2] \notin groupPKs }

\* bulkCreateOrUpdateSubjectMembers(_type, id, subjects, false): the relations
\* whose policy_expired_at is less than the wanted one are updated in the
\* transaction; the function returns without tx.Commit()
UpdateExpiredAtWithTx(table, wanted) ==
    [table EXCEPT !.expired_at =
        [m \in UserPKs |-> IF m \in table.exists /\ @[m] < wanted[m] THEN wanted[m] ELSE @[m]]]

\* the table when svc.UpdateMembersExpiredAt returns nil: committed is whether
\* tx.Commit() was called; without it the deferred database.RollBackWithLog(tx)
\* rolls the update back.  No path of the function calls tx.Commit()
UpdateMembersExpiredAtRows(table, wanted) ==
    LET committed == FALSE
    IN  IF committed THEN UpdateExpiredAtWithTx(table, wanted) ELSE table

\* BatchDeleteSubjects is called
BatchDeleteSubjects ==
    /\ handler.pc = "idle"
    /\ \E subjects \in SUBSET (GroupPKs \cup UserPKs), bindFail \in BOOLEAN :
         \E lookupFails \in SUBSET (subjects \cap GroupPKs) :
            handler' = BatchDeleteSubjectsPrelude(subjectTable, subjects, lookupFails, bindFail)
    /\ UNCHANGED <<subjectTable, groupPolicyCache, subjectDetailCache>>
    /\ UNCHANGED <<policyTable, policyCache, req, mut, invocation, groupVars>>

\* svc.BulkDelete: on failure the handler answers with the error
BulkDelete ==
    /\ handler.pc = "delete"
    /\ \E fail \in BOOLEAN :
         IF fail
         THEN /\ handler' = [handler EXCEPT !.pc = "done", !.status = "SystemError",
                                            !.calls = Append(@, "svc.BulkDelete")]
              /\ UNCHANGED subjectTable
         ELSE /\ handler' = [handler EXCEPT !.pc = "clear",
                                            !.deleted = handler.subjects \cap subjectTable.exists,
                                            !.calls = Append(@, "svc.BulkDelete")]
              /\ subjectTable' = [subjectTable EXCEPT !.exists = @ \ handler.subjects]
    /\ UNCHANGED <<groupPolicyCache, subjectDetailCache>>
    /\ UNCHANGED <<policyTable, policyCache, req, mut, invocation, groupVars>>

\* the caches are cleared and the handler answers ok
ClearCaches ==
    /\ handler.pc = "clear"
    /\ subjectDetailCache' = BatchDeleteSubjectCache(subjectDetailCache, handler.deleted)
    /\ \E listAllFail \in BOOLEAN, cacheFail \in BOOLEAN :
         /\ groupPolicyCache' =
              deleteGroupPKPolicyCache(groupPolicyCache, handler.groupPKs, listAllFail, cacheFail)
         /\ handler' = [handler EXCEPT
                          !.pc = "done", !.status = "ok",
                          !.calls = @ \o <<"cacheimpls.BatchDeleteSubjectCache", "cacheimpls.DeleteSubjectPK">>
                                      \o (IF listAllFail THEN <<"systemSVC.ListAll">>
                                          ELSE <<"systemSVC.ListAll",
                                                 "pl.BatchDeleteSystemSubjectPKsFromCache">>)]
    /\ UNCHANGED subjectTable
    /\ UNCHANGED <<policyTable, policyCache, req, mut, invocation, groupVars>>

\* UpdateSubjectMembersExpiredAt is called: wanted[m] is the policy_expired_at
\* the body asks for member m, 0 when m is not in the body
UpdateSubjectMembersExpiredAt ==
    /\ handler.pc = "idle"
    /\ \E wanted \in [UserPKs -> 0..MaxExpiredAt], bindFail \in BOOLEAN :
         handler' = IF bindFail \/ (\A m \in UserPKs : wanted[m] = 0)
                    THEN BadRequest("UpdateSubjectMembersExpiredAt")
                    ELSE [IdleHandler EXCEPT !.pc = "update",
                                             !.op = "UpdateSubjectMembersExpiredAt",
                                             !.wanted = wanted]
    /\ UNCHANGED <<subjectTable, groupPolicyCache, subjectDetailCache>>
    /\ UNCHANGED <<policyTable, policyCache, req, mut, invocation, groupVars>>

\* svc.UpdateMembersExpiredAt and the answer of the handler: no cache is
\* cleared on either way out
UpdateMembersExpiredAt ==
    /\ handler.pc = "update"
    /\ \E fail \in BOOLEAN :
         IF fail
         THEN /\ handler' = [handler EXCEPT !.pc = "done", !.status = "SystemError",
                                            !.calls = Append(@, "svc.UpdateMembersExpiredAt")]
              /\ UNCHANGED subjectTable
         ELSE /\ handler' = [handler EXCEPT !.pc = "done", !.status = "ok",
                                            !.calls = Append(@, "svc.UpdateMembersExpiredAt")]
              /\ subjectTable' = UpdateMembersExpiredAtRows(subjectTable, handler.wanted)
    /\ UNCHANGED <<groupPolicyCache, subjectDetailCache>>
    /\ UNCHANGED <<policyTable, policyCache, req, mut, invocation, groupVars>>

ReturnHandler ==
    /\ handler.pc = "done"
    /\ handler' = IdleHandler
    /\ UNCHANGED <<subjectTable, groupPolicyCache, subjectDetailCache>>
    /\ UNCHANGED <<policyTable, policyCache, req, mut, invocation, groupVars>>

\* a decision caches the policies of a group the subject is in
CacheGroupPolicies ==
    /\ \E k \in Systems \X GroupPKs :
         /\ k[2] \in subjectTable.exists
         /\ k \notin groupPolicyCache
         /\ groupPolicyCache' = groupPolicyCache \cup {k}
    /\ UNCHANGED <<subjectTable, subjectDetailCache, handler>>
    /\ UNCHANGED <<policyTable, policyCache, req, mut, invocation, groupVars>>

\* a decision caches the subject detail of a user
CacheSubjectDetail ==
    /\ \E m \in UserPKs :
         /\ m \in subjectTable.exists
         /\ subjectDetailCache[m] = 0
         /\ subjectDetailCache' =
              [subjectDetailCache EXCEPT ![m] = subjectTable.expired_at[m]]
    /\ UNCHANGED <<subjectTable, groupPolicyCache, handler>>
    /\ UNCHANGED <<policyTable, policyCache, req, mut, invocation, groupVars>>

----------------------------------------------------------------------------
(* getEffectSubjectPKs: the subject pks whose policies count for a subject. *)

\* the departments of a subject; "g3" is a group that is joined through a
\* department only
DeptPKs == {"d1", "d2"}

\* Int64Set.ToSlice(): the elements of the set, each once, in an order the
\* set does not fix
ToSlice(set) ==
    { order \in [1..Cardinality(set) -> set] :
        \A i, j \in 1..Cardinality(set) : i # j => order[i] # order[j] }

\* a variant that takes the groups that expire now for valid
InheritGroupPKsNotBefore(deptPKs, subjectGroups, now) ==
    IF Len(deptPKs) > 0
    THEN { subjectGroups[i].pk : i \in { j \in 1..Len(subjectGroups) :
                                            subjectGroups[j].policy_expired_at >= now } }
    ELSE {}

\* inheritGroupPKSet: subjectGroups is what impls.ListSubjectEffectGroups
\* returns for the departments, asked only when there is a department
InheritGroupPKs(deptPKs, subjectGroups, now) ==
    IF Len(deptPKs) > 0
    THEN { subjectGroups[i].pk : i \in { j \in 1..Len(subjectGroups) :
                                            subjectGroups[j].policy_expired_at > now } }
    ELSE {}

\* a variant that appends the inherited groups to the list of the own ones
MergeGroupPKsKeepingAll(groupPKs, inheritGroupPKs) ==
    { groupPKs \o order : order \in ToSlice(inheritGroupPKs) }

\* groupPKSet.ToSlice() after the own and the inherited groups were added:
\* the slices it can return
MergeGroupPKs(groupPKs, inheritGroupPKs) ==
    ToSlice({ groupPKs[i] : i \in 1..Len(groupPKs) } \cup inheritGroupPKs)

\* a variant that puts the pk of the subject last
getEffectSubjectPKsGroupsFirst(subjectPK, groupPKs, deptPKs, subjectGroups, now) ==
    { [pks |-> Append(merged, subjectPK), lookup |-> Len(deptPKs) > 0] :
        merged \in MergeGroupPKs(groupPKs, InheritGroupPKs(deptPKs, subjectGroups, now)) }

\* getEffectSubjectPKs without a failing lookup: the lists it can return,
\* and whether impls.ListSubjectEffectGroups was called
getEffectSubjectPKs(subjectPK, groupPKs, deptPKs, subjectGroups, now) ==
    { [pks |-> <<subjectPK>> \o merged, lookup |-> Len(deptPKs) > 0] :
        merged \in MergeGroupPKs(groupPKs, InheritGroupPKs(deptPKs, subjectGroups, now)) }

----------------------------------------------------------------------------
(* The translation of policy expressions into the public expression.  An   *)
(* expression is its text, "", "[]", "123" (which is no JSON array) or     *)
(* "[...]", and for "[...]" the elements the text has, each with its       *)
(* resource type and its condition already as a cell.  The value of a leaf *)
(* is the list of its values, one value for an eq.                         *)

AnyCell == [op |-> "any", field |-> "", value |-> << >>]

\* the expressions of the translation tests
Expressions ==
    LET Leaf(op, field, value) == [op |-> op, field |-> field, value |-> value]
        Or(content) == [op |-> "OR", content |-> content]
        Element(type, cell) == [type |-> type, cell |-> cell]
    IN  { [text |-> t, elements |-> << >>] : t \in {"", "[]", "123"} }
          \cup { [text |-> "[...]", elements |-> <<Element("iam:job", c)>>] :
                   c \in {Leaf("eq", "job.id", <<"abc">>), Leaf("eq", "job.name", <<"def">>),
                          Leaf("in", "job.id", <<"def", "ghi">>)} }
          \cup { [text |-> "[...]",
                  elements |-> <<Element("bk_cmdb:host",
                                         Or(<<Leaf("eq", "host.id", <<"abc">>)>>))>>],
                 [text |-> "[...]",
                  elements |-> <<Element("iam:job", Or(<<Leaf("any", "job.id", << >>)>>)),
                                 Element("bk_cmdb:host",
                                         Or(<<Leaf("any", "host.id", << >>)>>))>>] }

\* the cells of the merge tests
ContentCells ==
    { [op |-> "in", field |-> "host.id", value |-> <<"abc", "def">>],
      [op |-> "eq", field |-> "host.id", value |-> <<"abc">>],
      [op |-> "in", field |-> "host.os", value |-> <<"abc", "def">>],
      [op |-> "AND", content |-> << >>],
      [op |-> "any", field |-> "host.id", value |-> << >>] }

\* a variant that translates "[]" as an expression without elements of the
\* requested types is wrapped: an AND without content
PolicyTranslateEmptyAnd(expression, resourceTypeSet) ==
    IF expression.text = "" THEN [cell |-> AnyCell, err |-> NoErr]
    ELSE IF expression.text = "123"
    THEN [cell |-> AnyCell, err |-> "unmarshal resourceExpression"]
    ELSE LET kept == SelectSeq(expression.elements, LAMBDA e : e.type \in resourceTypeSet)
         IN  [cell |-> IF Len(kept) = 1 THEN kept[1].cell
                       ELSE [op |-> "AND", content |-> [i \in 1..Len(kept) |-> kept[i].cell]],
              err |-> NoErr]

\* a variant that translates the first element only
PolicyTranslateFirstElement(expression, resourceTypeSet) ==
    IF expression.text \in {"", "[]"} THEN [cell |-> AnyCell, err |-> NoErr]
    ELSE IF expression.text = "123"
    THEN [cell |-> AnyCell, err |-> "unmarshal resourceExpression"]
    ELSE LET kept == SelectSeq(expression.elements, LAMBDA e : e.type \in resourceTypeSet)
         IN  [cell |-> IF Len(kept) = 0 THEN AnyCell ELSE kept[1].cell, err |-> NoErr]

\* a variant that replaces a kept element that is an OR or AND of one child
\* by the child
PolicyTranslateUnwrapping(expression, resourceTypeSet) ==
    IF expression.text \in {"", "[]"} THEN [cell |-> AnyCell, err |-> NoErr]
    ELSE IF expression.text = "123"
    THEN [cell |-> AnyCell, err |-> "unmarshal resourceExpression"]
    ELSE LET kept == SelectSeq(expression.elements, LAMBDA e : e.type \in resourceTypeSet)
             Unwrapped(c) == IF c.op \in {"OR", "AND"} /\ Len(c.content) = 1
                             THEN c.content[1] ELSE c
         IN  [cell |-> IF Len(kept) = 0 THEN AnyCell
                       ELSE IF Len(kept) = 1 THEN Unwrapped(kept[1].cell)
                       ELSE [op |-> "AND",
                             content |-> [i \in 1..Len(kept) |-> Unwrapped(kept[i].cell)]],
              err |-> NoErr]

\* PolicyTranslate: "" and "[]" are any; the elements of the requested types
\* are translated, none of them is any, one is its cell, several are an AND
PolicyTranslate(expression, resourceTypeSet) ==
    IF expression.text \in {"", "[]"} THEN [cell |-> AnyCell, err |-> NoErr]
    ELSE IF expression.text = "123"
    THEN [cell |-> AnyCell, err |-> "unmarshal resourceExpression"]
    ELSE LET kept == SelectSeq(expression.elements, LAMBDA e : e.type \in resourceTypeSet)
         IN  [cell |-> IF Len(kept) = 0 THEN AnyCell
                       ELSE IF Len(kept) = 1 THEN kept[1].cell
                       ELSE [op |-> "AND", content |-> [i \in 1..Len(kept) |-> kept[i].cell]],
              err |-> NoErr]

\* the eq and in leaves of one field made one in leaf at the place of the
\* first of them; merged holds the cells done so far
RECURSIVE MergedInPlace(_, _)
MergedInPlace(content, merged) ==
    IF content = << >> THEN merged
    ELSE LET c == Head(content)
             Same(x) == /\ x.op \in {"eq", "in"} /\ c.op \in {"eq", "in"}
                        /\ x.field = c.field
             at == { i \in 1..Len(merged) : Same(merged[i]) }
         IN  IF at = {} THEN MergedInPlace(Tail(content), Append(merged, c))
             ELSE LET i == CHOOSE j \in at : TRUE
                  IN  MergedInPlace(Tail(content),
                         [merged EXCEPT ![i] = [op |-> "in", field |-> c.field,
                                                value |-> @.value \o c.value]])

\* a variant that merges in place
mergeContentFieldInPlace(content) == { MergedInPlace(content, << >>) }

\* a variant that keeps every leaf as it is
mergeContentFieldKeepingAll(content) == { content }

\* a variant that returns the cells with another op in reverse order
mergeContentFieldReversing(content) ==
    LET others == SelectSeq(content, LAMBDA c : c.op \notin {"eq", "in"})
        leaves == MergedInPlace(SelectSeq(content, LAMBDA c : c.op \in {"eq", "in"}), << >>)
    IN  { [i \in 1..Len(others) |-> others[Len(others) + 1 - i]] \o leaves }

\* a variant that returns the merged cells in any order
mergeContentFieldInAnyOrder(content) ==
    LET merged == MergedInPlace(content, << >>)
    IN  { [i \in 1..Len(merged) |-> merged[o[i]]] :
            o \in { p \in [1..Len(merged) -> 1..Len(merged)] :
                      \A i, j \in DOMAIN p : p[i] = p[j] => i = j } }

\* mergeContentField: the cells with another op than eq and in come first,
\* in their order; then one leaf for every field of the eq and in leaves,
\* the leaf itself when the field has one and else an in leaf with the
\* values of its leaves in their order.  The fields are taken in an
\* unspecified order: these are the lists it can return
mergeContentField(content) ==
    LET Mergeable(c) == c.op \in {"eq", "in"}
        others == SelectSeq(content, LAMBDA c : ~Mergeable(c))
        fields == { content[i].field : i \in { j \in 1..Len(content) : Mergeable(content[j]) } }
        Leaves(f) == SelectSeq(content, LAMBDA c : Mergeable(c) /\ c.field = f)
        RECURSIVE Values(_)
        Values(leaves) == IF leaves = << >> THEN << >>
                          ELSE Head(leaves).value \o Values(Tail(leaves))
        Merged(f) == IF Len(Leaves(f)) = 1 THEN Leaves(f)[1]
                     ELSE [op |-> "in", field |-> f, value |-> Values(Leaves(f))]
        orders == { o \in [1..Cardinality(fields) -> fields] :
                      \A i, j \in DOMAIN o : o[i] = o[j] => i = j }
    IN  { others \o [i \in 1..Cardinality(fields) |-> Merged(o[i])] : o \in orders }

\* PoliciesTranslate from policy i on: a policy that does not translate
\* ends it with the error, a policy that is any makes the whole any; the
\* cells of the others are merged, one cell is returned as it is and
\* several as an OR.  These are the results it can return
RECURSIVE PoliciesTranslate(_, _, _, _)
PoliciesTranslate(policies, resourceTypeSet, i, content) ==
    IF i > Len(policies)
    THEN { [cell |-> IF Len(merged) = 0 THEN AnyCell
                     ELSE IF Len(merged) = 1 THEN merged[1]
                     ELSE [op |-> "OR", content |-> merged],
            err |-> NoErr] : merged \in mergeContentField(content) }
    ELSE LET t == PolicyTranslate(policies[i], resourceTypeSet)
         IN  IF t.err # NoErr THEN { [cell |-> AnyCell, err |-> t.err] }
             ELSE IF t.cell.op = "any" THEN { [cell |-> AnyCell, err |-> NoErr] }
             ELSE PoliciesTranslate(policies, resourceTypeSet, i + 1, Append(content, t.cell))

----------------------------------------------------------------------------
(* The leaf conditions.  A context is what GetAttr returns for the key of  *)
(* the condition: an error (errCtx), one value (ctx) or a list of values   *)
(* (listCtx); attr holds the values, one for a ctx.                        *)

Contexts ==
    { [kind |-> "errCtx", attr |-> << >>] }
      \cup { [kind |-> "ctx", attr |-> <<a>>] : a \in 1..4 }
      \cup { [kind |-> "listCtx", attr |-> l] : l \in UNION { [1..n -> 1..4] : n \in 0..2 } }

\* a variant that wants every value of the attribute to satisfy fn
forOrOfEveryValue(ctx, value) ==
    IF ctx.kind = "errCtx" THEN FALSE
    ELSE \A i \in 1..Len(ctx.attr) : \E j \in 1..Len(value) : ctx.attr[i] = value[j]

\* baseCondition.forOr with the fn of its tests, a == b: false when GetAttr
\* fails; for a list, true when one of its values equals one of the values
\* of the condition; else true when the attribute equals one of them
forOr(ctx, value) ==
    LET hit(a) == \E j \in 1..Len(value) : a = value[j]
    IN  IF ctx.kind = "errCtx" THEN FALSE
        ELSE IF ctx.kind = "listCtx" THEN \E i \in 1..Len(ctx.attr) : hit(ctx.attr[i])
        ELSE hit(ctx.attr[1])

----------------------------------------------------------------------------
(* The members of a group in the subject service.  db holds, for every     *)
(* member, the policy_expired_at of its relation to the group and of the   *)
(* group in its subject-system-group record, 0 when there is none; tx is   *)
(* what the statements of a transaction have written.                      *)

MemberPKs == {"m1", "m2"}

\* the database after the deferred database.RollBackWithLog(tx): what the
\* transaction wrote when it was committed, and else what was there before
RollBackWithLog(db, tx, committed) == IF committed THEN tx ELSE db

\* a variant that writes the requested expiry over every existing relation
bulkCreateOrUpdateSubjectMembersAnyExpiry(db, wanted, createIfNotExists, fail) ==
    LET update == { m \in DOMAIN wanted : db.relation[m] > 0 /\ db.relation[m] # wanted[m] }
        create == { m \in DOMAIN wanted : createIfNotExists /\ db.relation[m] = 0 }
        grouped == [relation |-> [m \in MemberPKs |-> IF m \in update \cup create
                                                        THEN wanted[m] ELSE db.relation[m]],
                    groups |-> [m \in MemberPKs |-> IF m \in update \cup create
                                                      THEN wanted[m] ELSE db.groups[m]]]
    IN  IF fail # "none" THEN [err |-> fail, tx |-> db, db |-> db, created |-> 0]
        ELSE [err |-> NoErr, tx |-> grouped, db |-> db, created |-> Cardinality(create)]

\* bulkCreateOrUpdateSubjectMembers: the relations that exist with an
\* earlier expiry are updated, the missing ones created when
\* createIfNotExists, and the group records follow, all in tx; fail is the
\* call that fails.  It returns without tx.Commit() on every path
bulkCreateOrUpdateSubjectMembers(db, wanted, createIfNotExists, fail) ==
    LET update == { m \in DOMAIN wanted : db.relation[m] > 0 /\ db.relation[m] < wanted[m] }
        create == { m \in DOMAIN wanted : createIfNotExists /\ db.relation[m] = 0 }
        updated == [db EXCEPT !.relation =
                       [m \in MemberPKs |-> IF m \in update THEN wanted[m] ELSE @[m]]]
        created == [updated EXCEPT !.relation =
                       [m \in MemberPKs |-> IF m \in create THEN wanted[m] ELSE @[m]]]
        grouped == [created EXCEPT !.groups =
                       [m \in MemberPKs |-> IF m \in update \cup create THEN wanted[m]
                                            ELSE @[m]]]
        Return(err, tx, count) ==
            [err |-> err, tx |-> tx, db |-> RollBackWithLog(db, tx, FALSE), created |-> count]
    IN  IF fail \in {"manager.GetPK", "define tx", "relationManager.UpdateExpiredAtWithTx"}
        THEN Return(fail, db, 0)
        ELSE IF fail = "relationManager.BulkCreateWithTx" /\ create # {}
        THEN Return(fail, updated, 0)
        ELSE IF fail = "bulkUpdateSubjectSystemGroup"
        THEN Return(fail, created, 0)
        ELSE Return(NoErr, grouped, Cardinality(create))

\* the members that are departments; the others are users
DepartmentPKs == {"m2"}

\* the map of counts that the member operations return, with nil for none
NilCount == [nil |-> TRUE, user |-> 0, department |-> 0]

\* a variant that commits the deleted relations before the records of the
\* members are updated
BulkDeleteSubjectMembersCommittingEarly(db, members, fail) ==
    LET deleted == [db EXCEPT !.relation = [m \in MemberPKs |-> IF m \in members THEN 0 ELSE @[m]]]
        ungrouped == [deleted EXCEPT !.groups =
                         [m \in MemberPKs |-> IF m \in members THEN 0 ELSE @[m]]]
    IN  IF fail \in {"manager.GetPK", "define tx", "splitSubjectToPK",
                     "BulkDeleteByMembersWithTx userPKs",
                     "BulkDeleteByMembersWithTx departmentPKs"}
        THEN [err |-> fail, tx |-> db, db |-> db, created |-> 0, count |-> NilCount]
        ELSE IF fail # "none"
        THEN [err |-> fail, tx |-> deleted, db |-> deleted, created |-> 0, count |-> NilCount]
        ELSE [err |-> NoErr, tx |-> ungrouped, db |-> ungrouped, created |-> 0,
              count |-> [nil |-> FALSE, user |-> 0, department |-> 0]]

\* BulkDeleteSubjectMembers: the relations of the users among the members,
\* then those of the departments, then the group in the records of all of
\* them are deleted in tx, and tx is committed; fail is the call that
\* fails, and count the rows that the two deletions removed
BulkDeleteSubjectMembers(db, members, fail) ==
    LET userPKs == members \cap UserPKs
        departmentPKs == members \cap DepartmentPKs
        Delete(from, pks) ==
            [from EXCEPT !.relation = [m \in MemberPKs |-> IF m \in pks THEN 0 ELSE @[m]]]
        Removed(pks) == Cardinality({ m \in pks : db.relation[m] > 0 })
        users == Delete(db, userPKs)
        deleted == Delete(users, departmentPKs)
        ungrouped == [deleted EXCEPT !.groups =
                         [m \in MemberPKs |-> IF m \in members THEN 0 ELSE @[m]]]
        Return(err, tx, committed) ==
            [err |-> err, tx |-> tx, db |-> RollBackWithLog(db, tx, committed),
             created |-> 0,
             count |-> IF err # NoErr THEN NilCount
                       ELSE [nil |-> FALSE, user |-> Removed(userPKs),
                             department |-> Removed(departmentPKs)]]
    IN  IF fail \in {"manager.GetPK", "define tx", "splitSubjectToPK"}
        THEN Return(fail, db, FALSE)
        ELSE IF fail = "BulkDeleteByMembersWithTx userPKs" /\ userPKs # {}
        THEN Return(fail, db, FALSE)
        ELSE IF fail = "BulkDeleteByMembersWithTx departmentPKs" /\ departmentPKs # {}
        THEN Return(fail, users, FALSE)
        ELSE IF fail = "bulkDeleteSubjectSystemGroup" THEN Return(fail, deleted, FALSE)
        ELSE IF fail = "tx.Commit" THEN Return(fail, ungrouped, FALSE)
        ELSE Return(NoErr, ungrouped, TRUE)

----------------------------------------------------------------------------
(* The subject-system-group record of one (system, subject): whether it is *)
(* there, the expiry of every group in its groups map, 0 for a group that  *)
(* is not in it, and the reversion of its optimistic lock.  Two callers    *)
(* change it, each in its own transaction.                                 *)

RetryCount == 3

Callers == {"c1", "c2"}

\* no record, and the zero value of dao.SubjectSystemGroup
NoRecord == [found |-> FALSE, groups |-> [g \in GroupPKs |-> 0], reversion |-> 0]

\* a caller that has not called: row is its local subjectSystemGroup, tx
\* what its transaction has written, count the rows of its last update
IdleUpdater ==
    [pc |-> "idle", op |-> "none", groupPK |-> "none", expiredAt |-> 0, i |-> 0,
     attempts |-> 0, row |-> NoRecord, count |-> -1, err |-> NoErr,
     tx |-> NoRecord, wrote |-> FALSE, committed |-> FALSE]

\* updateGroupsString with addOrUpdateFunc or removeFunc
updateGroupsString(groups, op, groupPK, expiredAt) ==
    IF op = "add" THEN [groups |-> [groups EXCEPT ![groupPK] = expiredAt], err |-> NoErr]
    ELSE IF groups[groupPK] = 0 THEN [groups |-> groups, err |-> "ErrNoSubjectSystemGroup"]
    ELSE [groups |-> [groups EXCEPT ![groupPK] = 0], err |-> NoErr]

\* subjectSystemGroupManager.UpdateWithTx: the row is written and its
\* reversion raised when the record of the struct is there with the
\* reversion the struct was read with; count is the number of rows changed
UpdateWithTx(stored, row) ==
    IF stored.found /\ row.found /\ stored.reversion = row.reversion
    THEN [count |-> 1, row |-> [row EXCEPT !.reversion = @ + 1]]
    ELSE [count |-> 0, row |-> stored]

\* a variant that reports an update of no row as a success
UpdateResultNil(count) == NoErr

\* the end of doUpdateSubjectSystemGroup after an update without error
UpdateResult(count) == IF count = 0 THEN "ErrNeedRetry" ELSE NoErr

\* a variant that tries once more than RetryCount times
AfterAttemptOnceMore(u, err) ==
    IF err = NoErr THEN [u EXCEPT !.pc = "returned", !.err = NoErr]
    ELSE IF err = "ErrNeedRetry"
    THEN IF u.i + 1 < RetryCount + 1 THEN [u EXCEPT !.pc = "get", !.i = @ + 1, !.err = err]
         ELSE [u EXCEPT !.pc = "returned", !.i = @ + 1, !.err = err]
    ELSE [u EXCEPT !.pc = "returned", !.err = err]

\* a variant that tries again after every error
AfterAttemptRetryingAll(u, err) ==
    IF err = NoErr THEN [u EXCEPT !.pc = "returned", !.err = NoErr]
    ELSE IF u.i + 1 < RetryCount THEN [u EXCEPT !.pc = "get", !.i = @ + 1, !.err = err]
    ELSE [u EXCEPT !.pc = "returned", !.i = @ + 1, !.err = err]

\* the loop of addOrUpdateSubjectSystemGroup and removeSubjectSystemGroup
\* after attempt i ended with err: nil returns, ErrNeedRetry continues
\* while i + 1 < RetryCount and is returned after the last attempt, another
\* error is returned at once
AfterAttempt(u, err) ==
    IF err = NoErr THEN [u EXCEPT !.pc = "returned", !.err = NoErr]
    ELSE IF err = "ErrNeedRetry"
    THEN IF u.i + 1 < RetryCount THEN [u EXCEPT !.pc = "get", !.i = @ + 1, !.err = err]
         ELSE [u EXCEPT !.pc = "returned", !.i = @ + 1, !.err = err]
    ELSE [u EXCEPT !.pc = "returned", !.err = err]

\* removeSubjectSystemGroup on a stored record with no other caller at
\* work: fail is the dao call that fails, "conflict" when every update
\* finds the reversion changed; row is the record in the transaction after
\* the call and attempts the calls of doUpdateSubjectSystemGroup
removeSubjectSystemGroup(stored, groupPK, fail) ==
    LET groups == updateGroupsString(stored.groups, "remove", groupPK, 0)
        r == UpdateWithTx(stored, [stored EXCEPT !.groups = groups.groups])
    IN  IF fail = "GetBySystemSubject fail" THEN [err |-> fail, row |-> stored, attempts |-> 1]
        ELSE IF ~stored.found THEN [err |-> "sql.ErrNoRows", row |-> stored, attempts |-> 1]
        ELSE IF groups.err # NoErr THEN [err |-> groups.err, row |-> stored, attempts |-> 1]
        ELSE IF fail = "UpdateWithTx fail" THEN [err |-> fail, row |-> stored, attempts |-> 1]
        ELSE IF fail = "conflict"
        THEN [err |-> "ErrNeedRetry", row |-> stored, attempts |-> RetryCount]
        ELSE [err |-> UpdateResult(r.count), row |-> r.row, attempts |-> 1]

\* a variant that takes a record without the group as an error of the bulk
\* operation
RECURSIVE bulkDeleteSubjectSystemGroupStrict(_, _, _, _)
bulkDeleteSubjectSystemGroupStrict(records, groupPK, fails, results) ==
    IF Len(results) = Len(records) THEN [err |-> NoErr, results |-> results]
    ELSE LET k == Len(results) + 1
             r == removeSubjectSystemGroup(records[k], groupPK, fails[k])
         IN  IF r.err \in {NoErr, "sql.ErrNoRows"}
             THEN bulkDeleteSubjectSystemGroupStrict(records, groupPK, fails, Append(results, r))
             ELSE [err |-> r.err, results |-> Append(results, r)]

\* bulkDeleteSubjectSystemGroup after ListGroupAuthSystem: the group is
\* removed from the record of every (subject, system) pair in turn;
\* sql.ErrNoRows and ErrNoSubjectSystemGroup are logged and the loop
\* continues, another error is returned.  results holds what the calls of
\* removeSubjectSystemGroup returned
RECURSIVE bulkDeleteSubjectSystemGroup(_, _, _, _)
bulkDeleteSubjectSystemGroup(records, groupPK, fails, results) ==
    IF Len(results) = Len(records) THEN [err |-> NoErr, results |-> results]
    ELSE LET k == Len(results) + 1
             r == removeSubjectSystemGroup(records[k], groupPK, fails[k])
         IN  IF r.err \in {NoErr, "sql.ErrNoRows", "ErrNoSubjectSystemGroup"}
             THEN bulkDeleteSubjectSystemGroup(records, groupPK, fails, Append(results, r))
             ELSE [err |-> r.err, results |-> Append(results, r)]

\* one whole call of UpdateSubjectPoliciesExpiredAt on a table: the
\* prelude, the write, which fails when fail names it, and the deferred
\* calls, the last registered first
UpdateSubjectPoliciesExpiredAtCall(table, s, wanted, fail) ==
    LET m == UpdateSubjectPoliciesExpiredAtPrelude(table, s, wanted, fail)
        w == IF fail = "UpdateExpiredAt" THEN WriteFailed(m) ELSE WriteSucceeded(m)
        n == Len(w.deferred)
    IN  IF m.pc # "write" THEN [err |-> m.err, table |-> table, calls |-> m.calls]
        ELSE [err |-> w.err,
              table |-> IF fail = "UpdateExpiredAt" THEN table
                        ELSE UpdateExpiredAt(table, m.updates),
              calls |-> w.calls \o [i \in 1..n |-> w.deferred[n + 1 - i]]]

\* the whole calls of AlterCustomPolicies, CreateAndDeleteTemplatePolicies
\* and UpdateTemplatePolicies on a table and a policy cache: the prelude,
\* the write, which fails or leaves one of its outcomes, and the deferred
\* calls, the last registered first
AlterCalls(op, table, cache, s, fail, unknownAction) ==
    LET m == AlterPrelude(op, s, fail, unknownAction)
        Exit(w, t) ==
            LET n == Len(w.deferred)
            IN  [err |-> w.err, table |-> t,
                 cache |-> CacheAfterCall(cache, w.deferred[1], s),
                 calls |-> w.calls \o [i \in 1..n |-> w.deferred[n + 1 - i]]]
    IN  IF m.pc # "write"
        THEN {[err |-> m.err, table |-> table, cache |-> cache, calls |-> m.calls]}
        ELSE {Exit(WriteFailed(m), table)}
                \cup { Exit(WriteSucceeded(m), t) : t \in WriteOutcomes(table, m) }

\* a variant of Eval that returns the error of the translation it makes
\* for the debug entry
EvalReturningTheDebugError(q, list, listFail, fail, ffail, entry, debugFail) ==
    LET pre == EvalPrelude(q, fail)
        fin == EvalFinish(q, list, listFail, ffail)
        Debug(expression) == [nil |-> ~entry, expression |-> expression]
    IN  IF ~pre.go THEN [ret |-> pre.ret, entry |-> Debug("none")]
        ELSE IF queryPolicies(list, listFail).err # NoErr
        THEN [ret |-> fin.ret, entry |-> Debug("none")]
        ELSE IF entry /\ debugFail # "none"
        THEN [ret |-> Ret("false", debugFail), entry |-> Debug("set fail")]
        ELSE [ret |-> fin.ret, entry |-> Debug(IF entry THEN "expr" ELSE "none")]

\* Eval(r, entry, withoutCache) as a whole, on the list that the policy
\* retrieval gives: entry says that the debug entry is not nil, and
\* debugFail names the call that fails in the translation that is made for
\* the entry alone.  The expression of the entry is "set fail" until the
\* translation succeeded; its errors are err1 and err2, not err
Eval(q, list, listFail, fail, ffail, entry, debugFail) ==
    LET pre == EvalPrelude(q, fail)
        fin == EvalFinish(q, list, listFail, ffail)
        Debug(expression) == [nil |-> ~entry, expression |-> expression]
    IN  IF ~pre.go THEN [ret |-> pre.ret, entry |-> Debug("none")]
        ELSE IF queryPolicies(list, listFail).err # NoErr
        THEN [ret |-> fin.ret, entry |-> Debug("none")]
        ELSE IF ~entry THEN [ret |-> fin.ret, entry |-> Debug("none")]
        ELSE IF debugFail \in {"GetResourceTypes", "PoliciesTranslate"}
        THEN [ret |-> fin.ret, entry |-> Debug("set fail")]
        ELSE [ret |-> fin.ret, entry |-> Debug("expr")]

\* no call of a pure function is in flight
NoCall == [fn |-> "none"]

----------------------------------------------------------------------------
(* Specifications.                                                         *)

\* no record of the (system, subject) and no caller
GroupsAtRest ==
    /\ subjectSystemGroup = NoRecord
    /\ updaters = [c \in Callers |-> IdleUpdater]

\* every subject exists, no handler runs and nothing is cached
SubjectsAtRest ==
    /\ subjectTable = [exists |-> (GroupPKs \cup UserPKs), expired_at |-> [m \in UserPKs |-> 1]]
    /\ groupPolicyCache = {}
    /\ subjectDetailCache = [m \in UserPKs |-> 0]
    /\ handler = IdleHandler

\* no policy is stored yet and nothing is cached
Init ==
    /\ policyTable = [p \in PolicyPKs |-> Absent]
    /\ policyCache = [k \in CacheKeys |-> NoEntry]
    /\ req = IdleReq
    /\ mut = IdleMut
    /\ SubjectsAtRest
    /\ invocation = NoCall
    /\ GroupsAtRest

\* the entrance: any request, over any stored policies
InitEntrance ==
    /\ policyTable \in [PolicyPKs -> {Absent, [expired_at |-> MaxExpiredAt]}]
    /\ policyCache = [k \in CacheKeys |-> NoEntry]
    /\ req = IdleReq
    /\ mut = IdleMut
    /\ SubjectsAtRest
    /\ invocation = NoCall
    /\ GroupsAtRest

EntranceRequest ==
    /\ req.pc = "idle"
    /\ \E q \in RequestInputs, fail \in PreludeFails :
         \E ffail \in IF CacheHit(policyCache, q) THEN FinishFails ELSE {"none"} :
             BeginRequest(q, fail, ffail)

NextEntrance ==
    \/ EntranceRequest
    \/ ReadStorage
    \/ FillCache
    \/ ReturnRequest
    \/ ExpireCacheEntry

SpecEntrance == InitEntrance /\ [][NextEntrance]_vars

\* the policy manager next to Eval requests
EvalRequest ==
    /\ req.pc = "idle"
    /\ \E q \in EvalInputs : BeginRequest(q, "none", "none")

NextInvalidating ==
    \/ EvalRequest
    \/ ReadStorage
    \/ FillCache
    \/ ReturnRequest
    \/ ExpireCacheEntry
    \/ DeleteByIDs
    \/ AlterCustomPolicies
    \/ CreateAndDeleteTemplatePolicies
    \/ UpdateTemplatePolicies
    \/ DeleteTemplatePolicies
    \/ UpdateSubjectPoliciesExpiredAt
    \/ Write
    \/ RunDeferred
    \/ ReturnMutation

Next ==
    \/ NextInvalidating
    \/ DeleteByActionID

Spec == Init /\ [][Next]_vars

\* the same without DeleteByActionID, the one operation that registers no
\* invalidation
SpecInvalidating == Init /\ [][NextInvalidating]_vars

\* the subject handlers next to the decisions that fill the caches
InitSubjects ==
    /\ policyTable = [p \in PolicyPKs |-> Absent]
    /\ policyCache = [k \in CacheKeys |-> NoEntry]
    /\ req = IdleReq
    /\ mut = IdleMut
    /\ subjectTable \in [exists : {GroupPKs \cup UserPKs}, expired_at : [UserPKs -> ExpiredAts]]
    /\ groupPolicyCache = {}
    /\ subjectDetailCache = [m \in UserPKs |-> 0]
    /\ handler = IdleHandler
    /\ invocation = NoCall
    /\ GroupsAtRest

NextSubjects ==
    \/ BatchDeleteSubjects
    \/ BulkDelete
    \/ ClearCaches
    \/ UpdateSubjectMembersExpiredAt
    \/ UpdateMembersExpiredAt
    \/ ReturnHandler
    \/ CacheGroupPolicies
    \/ CacheSubjectDetail

SpecSubjects == InitSubjects /\ [][NextSubjects]_vars

----------------------------------------------------------------------------
(* Single calls of the functions of the decision path: invocation holds    *)
(* the arguments of the call in flight and what it returned.               *)

\* the part of a request after its policy retrieval, for the requests that
\* get that far
CallFinish ==
    /\ invocation = NoCall
    /\ \E q \in { x \in RequestInputs : Prelude(x, "none").go },
          list \in SUBSET [pk : PolicyPKs, expired_at : {1}], fail \in FinishFails :
         invocation' = [fn |-> "Finish", q |-> q, list |-> list, fail |-> fail,
                        out |-> Finish(q, list, FALSE, fail)]
    /\ UNCHANGED <<policyTable, policyCache, req, mut, subjectVars, groupVars>>

\* one policy list evaluated on the resources of one request
CallEval ==
    /\ invocation = NoCall
    /\ \E rs \in ResourceLists, policies \in PolicySeqs(MaxPolicies), remoteFail \in BOOLEAN :
         invocation' =
            [fn |-> "Eval", rs |-> rs, policies |-> policies, remoteFail |-> remoteFail,
             filtered |-> filterPoliciesByEvalResourcesInOrder(rs, policies, remoteFail),
             eval |-> EvalAnswer(rs, policies, remoteFail),
             evalPolicies |-> EvalPolicies(rs, policies, remoteFail)]
    /\ UNCHANGED <<policyTable, policyCache, req, mut, subjectVars, groupVars>>

\* getEffectSubjectPKs for the subject "s": its own valid groups, its
\* departments, the groups of the departments with their expiry, and the time
CallGetEffectSubjectPKs ==
    /\ invocation = NoCall
    /\ \E groupPKs \in UNION { [1..n -> GroupPKs] : n \in 0..2 },
          deptPKs \in {<< >>, <<"d1">>, <<"d1", "d2">>},
          now \in 0..MaxExpiredAt :
         \E subjectGroups \in
               IF deptPKs = << >> THEN {<< >>}
               ELSE UNION { [1..n -> [pk : GroupPKs \cup {"g3"},
                                      policy_expired_at : ExpiredAts]] : n \in 0..2 } :
            \E out \in getEffectSubjectPKs("s", groupPKs, deptPKs, subjectGroups, now) :
               invocation' = [fn |-> "getEffectSubjectPKs", groupPKs |-> groupPKs,
                              deptPKs |-> deptPKs, subjectGroups |-> subjectGroups,
                              now |-> now, out |-> out]
    /\ UNCHANGED <<policyTable, policyCache, req, mut, subjectVars, groupVars>>

\* PoliciesTranslate for the expressions of a policy list and the resource
\* types of the request, called twice; single is PolicyTranslate of its
\* first expression
CallTranslate ==
    /\ invocation = NoCall
    /\ \E policies \in UNION { [1..n -> Expressions] : n \in 1..MaxPolicies },
          resourceTypeSet \in SUBSET {"iam:job", "bk_cmdb:host"} :
         \E out, again \in PoliciesTranslate(policies, resourceTypeSet, 1, << >>) :
            invocation' = [fn |-> "PoliciesTranslate", policies |-> policies,
                           resourceTypeSet |-> resourceTypeSet,
                           single |-> PolicyTranslate(policies[1], resourceTypeSet),
                           out |-> out, again |-> again]
    /\ UNCHANGED <<policyTable, policyCache, req, mut, subjectVars, groupVars>>

\* mergeContentField for the cells of up to MaxPolicies policies, and once
\* more for what it returned
CallMerge ==
    /\ invocation = NoCall
    /\ \E content \in UNION { [1..n -> ContentCells] : n \in 0..MaxPolicies } :
         \E out \in mergeContentField(content) :
            \E twice \in mergeContentField(out) :
               invocation' = [fn |-> "mergeContentField", content |-> content,
                              out |-> out, twice |-> twice]
    /\ UNCHANGED <<policyTable, policyCache, req, mut, subjectVars, groupVars>>

\* forOr of a condition with up to two values on a context
CallForOr ==
    /\ invocation = NoCall
    /\ \E ctx \in Contexts, value \in UNION { [1..n -> 1..2] : n \in 0..2 } :
         invocation' = [fn |-> "forOr", ctx |-> ctx, value |-> value,
                        out |-> forOr(ctx, value)]
    /\ UNCHANGED <<policyTable, policyCache, req, mut, subjectVars, groupVars>>

\* the databases in which the record of a member follows its relation
MemberDatabases ==
    { [relation |-> r, groups |-> r] : r \in [MemberPKs -> 0..MaxExpiredAt] }

\* BulkCreateSubjectMembers and UpdateMembersExpiredAt: both are
\* bulkCreateOrUpdateSubjectMembers, with and without createIfNotExists
CallBulkCreateOrUpdateSubjectMembers ==
    /\ invocation = NoCall
    /\ \E db \in MemberDatabases, createIfNotExists \in BOOLEAN,
          wanted \in UNION { [ms -> 1..MaxExpiredAt] : ms \in SUBSET MemberPKs },
          fail \in {"none", "manager.GetPK", "define tx", "relationManager.UpdateExpiredAtWithTx",
                    "relationManager.BulkCreateWithTx", "bulkUpdateSubjectSystemGroup"} :
         invocation' =
            [fn |-> IF createIfNotExists THEN "BulkCreateSubjectMembers"
                    ELSE "UpdateMembersExpiredAt",
             before |-> db, wanted |-> wanted, fail |-> fail,
             out |-> bulkCreateOrUpdateSubjectMembers(db, wanted, createIfNotExists, fail)]
    /\ UNCHANGED <<policyTable, policyCache, req, mut, subjectVars, groupVars>>

CallBulkDeleteSubjectMembers ==
    /\ invocation = NoCall
    /\ \E db \in MemberDatabases, members \in SUBSET MemberPKs,
          fail \in {"none", "manager.GetPK", "define tx", "splitSubjectToPK",
                    "BulkDeleteByMembersWithTx userPKs",
                    "BulkDeleteByMembersWithTx departmentPKs",
                    "bulkDeleteSubjectSystemGroup", "tx.Commit"} :
         invocation' = [fn |-> "BulkDeleteSubjectMembers", before |-> db,
                        members |-> members, fail |-> fail,
                        out |-> BulkDeleteSubjectMembers(db, members, fail)]
    /\ UNCHANGED <<policyTable, policyCache, req, mut, subjectVars, groupVars>>

\* bulkDeleteSubjectSystemGroup of the group g1 for the records of up to
\* two (subject, system) pairs
CallBulkDeleteSubjectSystemGroup ==
    /\ invocation = NoCall
    /\ \E n \in 1..2 :
         \E records \in [1..n -> {NoRecord} \cup
                                    { [found |-> TRUE, groups |-> gs, reversion |-> 0] :
                                        gs \in [GroupPKs -> 0..MaxExpiredAt] }],
            fails \in [1..n -> {"none", "GetBySystemSubject fail", "UpdateWithTx fail",
                                "conflict"}],
            listFail \in BOOLEAN :
            invocation' =
               [fn |-> "bulkDeleteSubjectSystemGroup", records |-> records, fails |-> fails,
                out |-> IF listFail THEN [err |-> "ListGroupAuthSystem fail", results |-> << >>]
                        ELSE bulkDeleteSubjectSystemGroup(records, "g1", fails, << >>)]
    /\ UNCHANGED <<policyTable, policyCache, req, mut, subjectVars, groupVars>>

\* UpdateSubjectPoliciesExpiredAt on every table of policies
CallUpdateSubjectPoliciesExpiredAt ==
    /\ invocation = NoCall
    /\ \E table \in [PolicyPKs -> Rows \cup {Absent}], s \in SubjectIDs,
          wanted \in [PolicyPKs -> 0..MaxExpiredAt],
          fail \in RenewFails \cup {"UpdateExpiredAt"} :
         invocation' = [fn |-> "UpdateSubjectPoliciesExpiredAt", table |-> table,
                        subject |-> s, wanted |-> wanted, fail |-> fail,
                        out |-> UpdateSubjectPoliciesExpiredAtCall(table, s, wanted, fail)]
    /\ UNCHANGED <<policyTable, policyCache, req, mut, subjectVars, groupVars>>

\* AlterCustomPolicies, CreateAndDeleteTemplatePolicies and
\* UpdateTemplatePolicies on every table, with an empty and a filled cache
CallAlter ==
    /\ invocation = NoCall
    /\ \E op \in {"AlterCustomPolicies", "CreateAndDeleteTemplatePolicies",
                   "UpdateTemplatePolicies"},
          table \in [PolicyPKs -> Rows \cup {Absent}],
          cache \in {[k \in CacheKeys |-> NoEntry], [k \in CacheKeys |-> Entry({})]},
          s \in SubjectIDs, fail \in AlterFails, unknownAction \in BOOLEAN :
         \E out \in AlterCalls(op, table, cache, s, fail, unknownAction) :
            invocation' = [fn |-> op, table |-> table, cache |-> cache, subject |-> s,
                           fail |-> fail, unknownAction |-> unknownAction, out |-> out]
    /\ UNCHANGED <<policyTable, policyCache, req, mut, subjectVars, groupVars>>

\* Eval with and without a debug entry
CallEvalWithEntry ==
    /\ invocation = NoCall
    /\ \E q \in { x \in RequestInputs : x.op = "Eval" /\ ~x.withoutCache },
          list \in SUBSET [pk : PolicyPKs, expired_at : {1}], listFail \in BOOLEAN,
          fail \in PreludeFails,
          ffail \in {"none", "EvalPolicies", "fillRemoteResourceAttrs", "FilterPolicies"},
          entry \in BOOLEAN :
         \E debugFail \in IF entry THEN {"none", "GetResourceTypes", "PoliciesTranslate"}
                           ELSE {"none"} :
            invocation' = [fn |-> "Eval(r, entry, withoutCache)", q |-> q, list |-> list,
                           listFail |-> listFail, fail |-> fail, ffail |-> ffail,
                           entry |-> entry, debugFail |-> debugFail,
                           out |-> Eval(q, list, listFail, fail, ffail, entry, debugFail)]
    /\ UNCHANGED <<policyTable, policyCache, req, mut, subjectVars, groupVars>>

ReturnCall ==
    /\ invocation # NoCall
    /\ invocation' = NoCall
    /\ UNCHANGED <<policyTable, policyCache, req, mut, subjectVars, groupVars>>

NextCalls ==
    \/ CallFinish
    \/ CallEval
    \/ CallGetEffectSubjectPKs
    \/ CallTranslate
    \/ CallMerge
    \/ CallForOr
    \/ CallBulkCreateOrUpdateSubjectMembers
    \/ CallBulkDeleteSubjectMembers
    \/ CallBulkDeleteSubjectSystemGroup
    \/ CallUpdateSubjectPoliciesExpiredAt
    \/ CallAlter
    \/ CallEvalWithEntry
    \/ ReturnCall

\* every call starts from the state in which nothing runs
SpecCalls == Init /\ [][NextCalls]_vars

----------------------------------------------------------------------------
(* Two callers of addOrUpdateSubjectSystemGroup and                        *)
(* removeSubjectSystemGroup on one record.  A statement of a transaction   *)
(* sees what the transaction wrote and waits while another open            *)
(* transaction holds a write to the record; GetBySystemSubject takes no    *)
(* transaction and reads what is committed.                                *)

\* the record as the statements of the transaction of c see it
RowInTx(c) == IF updaters[c].wrote THEN updaters[c].tx ELSE subjectSystemGroup

\* another open transaction has written the record
LockedByOther(c) ==
    \E d \in Callers \ {c} : updaters[d].wrote /\ updaters[d].pc # "ended"

InitGroups ==
    /\ policyTable = [p \in PolicyPKs |-> Absent]
    /\ policyCache = [k \in CacheKeys |-> NoEntry]
    /\ req = IdleReq
    /\ mut = IdleMut
    /\ SubjectsAtRest
    /\ invocation = NoCall
    /\ subjectSystemGroup \in
          {NoRecord} \cup { [found |-> TRUE, groups |-> gs, reversion |-> 0] :
                              gs \in [GroupPKs -> 0..MaxExpiredAt] }
    /\ updaters = [c \in Callers |-> IdleUpdater]

\* addOrUpdateSubjectSystemGroup or removeSubjectSystemGroup is called with
\* a new transaction
StartUpdate(c) ==
    /\ updaters[c].pc = "idle"
    /\ \E op \in {"add", "remove"}, groupPK \in GroupPKs, expiredAt \in ExpiredAts :
         /\ op = "remove" => expiredAt = 1
         /\ updaters' = [updaters EXCEPT ![c] =
                            [IdleUpdater EXCEPT !.pc = "get", !.op = op, !.groupPK = groupPK,
                                                !.expiredAt = IF op = "add" THEN expiredAt ELSE 0]]
    /\ UNCHANGED <<policyTable, policyCache, req, mut, subjectVars, invocation, subjectSystemGroup>>

\* doUpdateSubjectSystemGroup starts: GetBySystemSubject, and for a record
\* that is there updateGroupsString
GetBySystemSubject(c) ==
    /\ updaters[c].pc = "get"
    /\ LET u == [updaters[c] EXCEPT !.attempts = @ + 1, !.count = -1]
           groups == updateGroupsString(subjectSystemGroup.groups, u.op, u.groupPK, u.expiredAt)
       IN  \E fail \in BOOLEAN :
              updaters' = [updaters EXCEPT ![c] =
                 IF fail THEN AfterAttempt(u, "GetBySystemSubject fail")
                 ELSE IF ~subjectSystemGroup.found
                 THEN IF u.op = "add" THEN [u EXCEPT !.pc = "create", !.row = NoRecord]
                      ELSE AfterAttempt(u, "sql.ErrNoRows")
                 ELSE IF groups.err # NoErr THEN AfterAttempt(u, groups.err)
                 ELSE [u EXCEPT !.pc = "update",
                                !.row = [subjectSystemGroup EXCEPT !.groups = groups.groups]]]
    /\ UNCHANGED <<policyTable, policyCache, req, mut, subjectVars, invocation, subjectSystemGroup>>

\* createSubjectSystemGroup: a duplicate entry is ErrNeedRetry; after a
\* create without error the function does not return, it goes on to
\* updateGroupsString and UpdateWithTx with the struct GetBySystemSubject
\* left, the zero value
CreateWithTx(c) ==
    /\ updaters[c].pc = "create"
    /\ ~LockedByOther(c)
    /\ LET u == updaters[c]
       IN  \E fail \in BOOLEAN :
              updaters' = [updaters EXCEPT ![c] =
                 IF fail THEN AfterAttempt(u, "CreateWithTx fail")
                 ELSE IF RowInTx(c).found THEN AfterAttempt(u, "ErrNeedRetry")
                 ELSE [u EXCEPT !.pc = "update", !.wrote = TRUE,
                                !.tx = [found |-> TRUE, reversion |-> 0,
                                        groups |-> [NoRecord.groups EXCEPT
                                                       ![u.groupPK] = u.expiredAt]],
                                !.row = [NoRecord EXCEPT !.groups =
                                           updateGroupsString(NoRecord.groups, u.op, u.groupPK,
                                                              u.expiredAt).groups]]]
    /\ UNCHANGED <<policyTable, policyCache, req, mut, subjectVars, invocation, subjectSystemGroup>>

\* UpdateWithTx with the local struct, and the end of the attempt
UpdateSubjectSystemGroup(c) ==
    /\ updaters[c].pc = "update"
    /\ updaters[c].row.found => ~LockedByOther(c)
    /\ LET u == updaters[c]
           r == UpdateWithTx(RowInTx(c), u.row)
       IN  \E fail \in BOOLEAN :
              updaters' = [updaters EXCEPT ![c] =
                 IF fail THEN AfterAttempt(u, "UpdateWithTx fail")
                 ELSE AfterAttempt([u EXCEPT !.count = r.count,
                                             !.wrote = @ \/ r.count = 1,
                                             !.tx = IF r.count = 1 THEN r.row ELSE @],
                                   UpdateResult(r.count))]
    /\ UNCHANGED <<policyTable, policyCache, req, mut, subjectVars, invocation, subjectSystemGroup>>

\* the caller ends its transaction: it can commit after nil, and else the
\* deferred rollback undoes what was written
EndTx(c) ==
    /\ updaters[c].pc = "returned"
    /\ \E commit \in IF updaters[c].err = NoErr THEN BOOLEAN ELSE {FALSE} :
         /\ subjectSystemGroup' = RollBackWithLog(subjectSystemGroup, RowInTx(c), commit)
         /\ updaters' = [updaters EXCEPT ![c].pc = "ended", ![c].committed = commit]
    /\ UNCHANGED <<policyTable, policyCache, req, mut, subjectVars, invocation>>

NextGroups ==
    \E c \in Callers :
       \/ StartUpdate(c)
       \/ GetBySystemSubject(c)
       \/ CreateWithTx(c)
       \/ UpdateSubjectSystemGroup(c)
       \/ EndTx(c)

SpecGroups == InitGroups /\ [][NextGroups]_vars

\* every caller that can take a step takes one
SpecGroupsFair ==
    SpecGroups /\ \A c \in Callers :
                     WF_vars(GetBySystemSubject(c) \/ CreateWithTx(c)
                                \/ UpdateSubjectSystemGroup(c) \/ EndTx(c))

----------------------------------------------------------------------------
(* Properties.                                                             *)

Called(calls, c) == \E i \in 1..Len(calls) : calls[i] = c

PolicyCacheDeleted(calls) == \E i \in 1..Len(calls) : calls[i] \in PolicyCacheDeletes

\* the request has returned after a policy retrieval that found no policy
RetrievedNothing ==
    /\ req.pc = "done"
    /\ Called(req.calls, CallQueryPolicies)
    /\ req.policies = {}
    /\ req.ret.err # "ErrListBySubjectAction"

InvalidatingOps ==
    {"DeleteByIDs", "AlterCustomPolicies", "CreateAndDeleteTemplatePolicies",
     "UpdateTemplatePolicies", "DeleteTemplatePolicies", "UpdateSubjectPoliciesExpiredAt"}

\* C2 as the specification states it: an operation whose storage write
\* failed performs no invalidation of the policy cache
C2_FailedWriteDoesNotInvalidate ==
    (mut.op \in InvalidatingOps /\ mut.err = "ErrWrite") => ~PolicyCacheDeleted(mut.calls)

\* C2, amended: an operation whose storage write failed returns the error
\* and still invalidates the policy cache on its way out; an operation
\* invalidates exactly when it has reached its storage write, and skips the
\* invalidation only when it returns before the write
C2_InvalidationFollowsEveryWrite ==
    (mut.pc = "done" /\ mut.op \in InvalidatingOps) =>
        /\ Called(mut.calls, StorageWrite) <=> PolicyCacheDeleted(mut.calls)
        /\ mut.err = "ErrWrite" => PolicyCacheDeleted(mut.calls)

C2_FailedWriteInvalidated ==
    /\ mut.pc = "done"
    /\ mut.op \in InvalidatingOps
    /\ mut.err = "ErrWrite"
    /\ PolicyCacheDeleted(mut.calls)

\* the subjects whose policies the write of operation m changes
AffectedSubjects(table, m) ==
    IF m.op = "DeleteByActionID"
    THEN { PolicySubject(p) :
             p \in { x \in PolicyPKs : PolicyAction(x) = m.subject /\ table[x] # Absent } }
    ELSE {m.subject}

\* C3: when an operation that wrote returns, the policy cache holds no
\* list of a subject the write affected
C3_NoCachedListSurvives ==
    [][(/\ mut.pc # "done"
        /\ mut'.pc = "done"
        /\ Called(mut'.calls, StorageWrite)
        /\ mut'.err = NoErr)
       => \A k \in CacheKeys :
            k[1] \in AffectedSubjects(policyTable, mut) => ~policyCache'[k].hit]_vars

\* C4: a policy cache invalidation is called after the storage write of the
\* operation has returned, never before it
C4_InvalidationAfterWrite ==
    \A i \in 1..Len(mut.calls) :
        mut.calls[i] \in PolicyCacheDeletes =>
            \E j \in 1..(i - 1) : mut.calls[j] = StorageWrite

C4_WroteThenInvalidated ==
    /\ mut.pc = "done"
    /\ mut.err = NoErr
    /\ Len(mut.calls) >= 2
    /\ mut.calls[1] = StorageWrite
    /\ mut.calls[Len(mut.calls)] \in PolicyCacheDeletes

\* C5: an Eval that starts after every mutation so far has returned (write
\* and invalidation) decides on the policies storage holds, also when
\* another request filled the cache while the mutation ran
C5_EvalAfterMutationSeesItsWrite ==
    (/\ req.pc = "done"
     /\ req.op = "Eval"
     /\ req.fresh
     /\ Called(req.calls, CallQueryPolicies)
     /\ req.ret.err # "ErrListBySubjectAction")
    => req.policies = StoredPolicies(policyTable, req.subject, req.action)

\* the request has returned from a subject lookup that found no subject
SubjectNotFound ==
    /\ req.pc = "done"
    /\ req.subject \in UnknownSubjects
    /\ req.fail # "GetSubjectDetail"
    /\ Called(req.calls, CallFillSubjectDetail)

\* C6: for a subject that does not exist Eval returns (false, nil) and
\* Query returns ({}, nil), and neither retrieves nor evaluates policies
C6_UnknownSubjectIsDenied ==
    (SubjectNotFound /\ req.op \in {"Eval", "Query"}) =>
        /\ req.ret = IF req.op = "Eval" THEN Ret("false", NoErr) ELSE Ret("{}", NoErr)
        /\ req.calls[Len(req.calls)] = CallFillSubjectDetail
        /\ \A i \in 1..Len(req.calls) :
             req.calls[i] \notin {CallQueryPolicies} \cup EvaluationCalls

C6_QueryOfUnknownSubject ==
    /\ SubjectNotFound
    /\ req.op = "Query"
    /\ req.ret = Ret("{}", NoErr)

\* C7: for a subject that does not exist QueryAuthPolicies returns
\* ErrSubjectNotExists
C7_QueryAuthPoliciesUnknownSubject ==
    (SubjectNotFound /\ req.op = "QueryAuthPolicies") =>
        req.ret = Ret("nil", ErrSubjectNotExists)

C7_SubjectNotExistsReturned ==
    /\ SubjectNotFound
    /\ req.op = "QueryAuthPolicies"
    /\ req.ret.err = ErrSubjectNotExists

\* Query or QueryByExtResources has returned, its action detail filled
QueryPastActionDetail ==
    /\ req.pc = "done"
    /\ req.op \in {"Query", "QueryByExtResources"}
    /\ req.action \in ActionPKs
    /\ req.fail # "GetActionDetail"

\* C8 as the specification states it: Query and QueryByExtResources, for
\* every value of their flags, reject resources that do not match the
\* declared types of the action with ErrInvalidActionResource, before the
\* subject is looked up and any policy is retrieved
C8_QueryRejectsMismatchedResources ==
    (QueryPastActionDetail /\ ~ValidateActionResource(req.action, req.resources)) =>
        /\ req.ret.err = ErrInvalidActionResource
        /\ ~Called(req.calls, CallFillSubjectDetail)
        /\ ~Called(req.calls, CallQueryPolicies)

\* C8, amended: Query validates only when willCheckRemoteResource is set,
\* and then the remote resource types alone (ValidateActionRemoteResource):
\* a mismatch returns ErrInvalidActionResource before the subject lookup.
\* Without the flag, and in QueryByExtResources always, nothing is
\* validated and the request goes on to the subject lookup
C8_QueryValidatesRemoteResourcesOnDemand ==
    QueryPastActionDetail =>
        IF /\ req.op = "Query"
           /\ req.willCheck
           /\ ~ValidateActionRemoteResource(req.action, req.resources)
        THEN /\ req.ret = Ret("nil", ErrInvalidActionResource)
             /\ req.calls = <<CallFillActionDetail, CallValidateActionRemoteResource>>
        ELSE /\ req.ret.err # ErrInvalidActionResource
             /\ Called(req.calls, CallFillSubjectDetail)

C8_QueryRejectedRemoteResources ==
    /\ QueryPastActionDetail
    /\ req.op = "Query"
    /\ req.willCheck
    /\ req.ret.err = ErrInvalidActionResource

\* C9: in each of the four operations, an action lookup that finds no row
\* returns ErrInvalidAction and any other failure of it returns the wrapped
\* error, and the action lookup is then the only call made
C9_ActionLookupFailureStops ==
    (req.pc = "done" /\ (req.action \in UnknownActions \/ req.fail = "GetActionDetail")) =>
        /\ req.calls = <<CallFillActionDetail>>
        /\ req.ret.err = IF req.fail = "GetActionDetail"
                         THEN "ErrFillActionDetail" ELSE ErrInvalidAction

C9_InvalidActionReturned ==
    /\ req.pc = "done"
    /\ req.action \in UnknownActions
    /\ req.fail = "none"
    /\ req.ret.err = ErrInvalidAction

\* the calls of Eval up to the policy retrieval, in their order
EvalOrder ==
    <<CallFillActionDetail, CallValidateActionResource, CallFillSubjectDetail,
      CallQueryPolicies>>

IsPrefix(s, t) == Len(s) <= Len(t) /\ s = SubSeq(t, 1, Len(s))

\* C10: Eval fills the action detail, validates the resources, fills the
\* subject detail, retrieves the policies and evaluates, in this order; when
\* the validation fails it returns (false, ErrInvalidActionResource) without
\* subject lookup, retrieval or evaluation
C10_EvalOrder ==
    req.op = "Eval" =>
        /\ \/ IsPrefix(req.calls, EvalOrder)
           \/ \E e \in {CallEvalPolicies, CallFilterPolicies} :
                req.calls = Append(EvalOrder, e)
        /\ (/\ req.pc = "done"
            /\ req.action \in ActionPKs
            /\ req.fail # "GetActionDetail"
            /\ ~ValidateActionResource(req.action, req.resources))
           => /\ req.ret = Ret("false", ErrInvalidActionResource)
              /\ req.calls = SubSeq(EvalOrder, 1, 2)

C10_EvalRejectedResources ==
    /\ req.pc = "done"
    /\ req.op = "Eval"
    /\ req.ret = Ret("false", ErrInvalidActionResource)
    /\ req.calls = SubSeq(EvalOrder, 1, 2)

----------------------------------------------------------------------------
(* The evaluation of a policy list.                                        *)

\* the policies of the list that hold on each of the first k resources, in
\* the order of the list
SurvivorsUpTo(rs, k, policies) ==
    SelectSeq(policies, LAMBDA p : \A i \in 1..k : ExprHolds(p, rs[i]))

\* a policy list is evaluated and the remote attributes are there
Evaluated ==
    /\ invocation.fn = "Eval"
    /\ ~(HasRemoteResources(invocation.rs) /\ invocation.remoteFail)

C13_NoPassWithoutSurvivor ==
    invocation.fn = "Eval" =>
        /\ ~(invocation.filtered.err = NoErr /\ invocation.filtered.policies = << >>)
        /\ invocation.evalPolicies.val = "true" =>
              \E i \in 1..Len(invocation.policies) :
                 \A j \in 1..Len(invocation.rs) :
                    ExprHolds(invocation.policies[i], invocation.rs[j])

\* the same for the requests that name a resource
C13_NoPassWithoutSurvivorOnResources ==
    (invocation.fn = "Eval" /\ invocation.rs # << >>) =>
        /\ ~(invocation.filtered.err = NoErr /\ invocation.filtered.policies = << >>)
        /\ invocation.evalPolicies.val = "true" =>
              \E i \in 1..Len(invocation.policies) :
                 \A j \in 1..Len(invocation.rs) :
                    ExprHolds(invocation.policies[i], invocation.rs[j])

----------------------------------------------------------------------------
(* The subject handlers.                                                   *)

\* the handler has answered ok to op
Answered(op) == handler.pc = "done" /\ handler.op = op /\ handler.status = "ok"

\* C15: when BatchDeleteSubjects has answered ok, no policy cache entry of a
\* deleted group is left, for any system
C15_DeletedGroupsLeaveNoCachedPolicies ==
    Answered("BatchDeleteSubjects") =>
        \A g \in handler.deleted \cap GroupPKs, s \in Systems : <<s, g>> \notin groupPolicyCache

\* the order C15 asks for: the pk lookup comes before svc.BulkDelete in the
\* call log, and the policy cache delete after it, on the ok path only
C15_LookupThenDeleteThenInvalidate ==
    LET calls == handler.calls
        At(c) == CHOOSE i \in 1..Len(calls) : calls[i] = c
    IN  /\ Called(calls, "cacheimpls.GetSubjectPK") /\ Called(calls, "svc.BulkDelete")
            => At("cacheimpls.GetSubjectPK") < At("svc.BulkDelete")
        /\ Called(calls, "pl.BatchDeleteSystemSubjectPKsFromCache")
            => /\ Called(calls, "svc.BulkDelete")
               /\ At("svc.BulkDelete") < At("pl.BatchDeleteSystemSubjectPKsFromCache")
               /\ handler.status = "ok"

\* C16: when UpdateSubjectMembersExpiredAt has answered ok, the subject
\* cache was cleared for the members of the body, and no detail of such a
\* member is left in the cache
C16_UpdatedMembersLeaveNoCachedDetail ==
    Answered("UpdateSubjectMembersExpiredAt") =>
        /\ Called(handler.calls, "cacheimpls.BatchDeleteSubjectCache")
        /\ \A m \in UserPKs : handler.wanted[m] # 0 => subjectDetailCache[m] = 0

\* the second half of C16: a failed update clears no cache entry
C16_FailedUpdateClearsNothing ==
    [][(handler.pc = "update" /\ handler'.status = "SystemError")
          => UNCHANGED <<groupPolicyCache, subjectDetailCache>>]_vars

----------------------------------------------------------------------------
(* The remote resource provider.                                           *)

\* the rest of a request is in flight and the fetch of the remote attributes
\* fails in its filterPoliciesByEvalResources
RemoteFetchFailed ==
    /\ invocation.fn = "Finish"
    /\ invocation.fail = "fillRemoteResourceAttrs"
    /\ HasRemoteResources(invocation.q.resources)
    /\ Called(invocation.out.calls, CallFilterPolicies)

\* ... and queryExtResourceAttrs fails for its ext resource
ExtFetchFailed ==
    /\ invocation.fn = "Finish"
    /\ invocation.fail = "queryExtResourceAttrs"
    /\ invocation.q.ext
    /\ Called(invocation.out.calls, CallQueryExtResourceAttrs)

\* C14: a failed fetch from the remote provider ends the operation with the
\* wrapped error of the fetch, without expression, policy list or instance
\* list, and never with a nil error
C14_RemoteFailureAborts ==
    /\ RemoteFetchFailed =>
          /\ invocation.out.ret.err = "ErrFillRemoteResourceAttrs"
          /\ invocation.out.ret.val \in {"nil", "false"}
          /\ invocation.out.ret.ext = "nil"
    /\ ExtFetchFailed =>
          /\ invocation.out.ret.err = "ErrQueryExtResourceAttrs"
          /\ invocation.out.ret.val = "nil"
          /\ invocation.out.ret.ext = "nil"

\* both failures happen: in Eval, Query and QueryByExtResources the first,
\* in QueryByExtResources the second
C14_RemoteFailuresHappen ==
    \/ RemoteFetchFailed /\ invocation.q.op = "Query"
    \/ ExtFetchFailed

----------------------------------------------------------------------------
(* The effective subjects.                                                 *)

\* the elements of a list
Range(seq) == { seq[i] : i \in 1..Len(seq) }

\* the groups of the departments that are valid after now
ValidDeptGroups ==
    { g \in GroupPKs \cup {"g3"} :
        \E i \in 1..Len(invocation.subjectGroups) :
           /\ invocation.subjectGroups[i].pk = g
           /\ invocation.subjectGroups[i].policy_expired_at > invocation.now }

\* C17: the pks getEffectSubjectPKs returns are the subject's pk, its own
\* valid groups and the groups of its departments that expire after now; a
\* group of a department that expires at or before now is in the list only
\* when it is an own group, and without a department the groups of the
\* departments are not asked for
C17_EffectSubjectPKsAreTheValidOnes ==
    invocation.fn = "getEffectSubjectPKs" =>
        /\ Range(invocation.out.pks) = {"s"} \cup Range(invocation.groupPKs) \cup ValidDeptGroups
        /\ invocation.out.lookup <=> invocation.deptPKs # << >>

\* a group of a department that expires exactly now is left out, one that
\* expires later is taken
C17_ExpiringNowLeftOut ==
    /\ invocation.fn = "getEffectSubjectPKs"
    /\ Len(invocation.subjectGroups) = 2
    /\ invocation.subjectGroups[1].policy_expired_at = invocation.now
    /\ invocation.subjectGroups[1].pk \notin Range(invocation.out.pks)
    /\ invocation.subjectGroups[2].policy_expired_at > invocation.now
    /\ invocation.subjectGroups[2].pk \in Range(invocation.out.pks)

\* C18: the list has no department pk and no pk twice
C18_NoDepartmentNoDuplicate ==
    invocation.fn = "getEffectSubjectPKs" =>
        LET pks == invocation.out.pks
        IN  /\ Range(pks) \cap DeptPKs = {}
            /\ \A i, j \in 1..Len(pks) : i # j => pks[i] # pks[j]

\* a group is an own group and the valid group of two departments' lookup
C18_JoinedAndInherited ==
    /\ invocation.fn = "getEffectSubjectPKs"
    /\ invocation.deptPKs = <<"d1", "d2">>
    /\ Len(invocation.subjectGroups) = 2
    /\ invocation.subjectGroups[1].pk = invocation.subjectGroups[2].pk
    /\ invocation.subjectGroups[1].pk \in Range(invocation.groupPKs) \cap ValidDeptGroups

\* the groups of the call in the order they are first seen: the own groups,
\* then the valid groups of the departments
RECURSIVE FirstSeen(_, _)
FirstSeen(seq, keep) ==
    IF seq = << >> THEN << >>
    ELSE LET rest == FirstSeen(Tail(seq), keep \ {Head(seq)})
         IN  IF Head(seq) \in keep THEN <<Head(seq)>> \o rest ELSE rest

FirstSeenGroups ==
    LET inherited == [i \in 1..Len(invocation.subjectGroups) |-> invocation.subjectGroups[i].pk]
    IN  FirstSeen(invocation.groupPKs \o inherited, Range(invocation.groupPKs) \cup ValidDeptGroups)

----------------------------------------------------------------------------
(* The translation.                                                        *)

\* C20: when the expression of every policy of the list is "" or "[]",
\* PoliciesTranslate returns the cell {op: any, field: "", value: []} without
\* error, for every set of resource types and every length of the list, and
\* so does PolicyTranslate for each of the two expressions
C20_AnyOnlyTranslatesToAny ==
    (/\ invocation.fn = "PoliciesTranslate"
     /\ \A i \in 1..Len(invocation.policies) : invocation.policies[i].text \in {"", "[]"})
        => /\ invocation.out = [cell |-> [op |-> "any", field |-> "", value |-> << >>],
                                err |-> NoErr]
           /\ invocation.single = invocation.out

\* a list of several policies with both empty expressions is translated for
\* a request with resource types
C20_SeveralAnyPolicies ==
    /\ invocation.fn = "PoliciesTranslate"
    /\ Len(invocation.policies) > 1
    /\ invocation.policies[1].text = ""
    /\ invocation.policies[2].text = "[]"
    /\ invocation.resourceTypeSet # {}
    /\ invocation.out.cell.op = "any"

\* the places of the elements of an expression whose type is requested
KeptElements(expression, resourceTypeSet) ==
    { i \in 1..Len(expression.elements) : expression.elements[i].type \in resourceTypeSet }

----------------------------------------------------------------------------
(* The merge of the cells of an OR.                                        *)

\* an eq or in leaf of field f
LeafOf(c, f) == c.op \in {"eq", "in"} /\ c.field = f

\* the fields of the eq and in leaves of a content list
LeafFields(content) ==
    { content[i].field : i \in { j \in 1..Len(content) : content[j].op \in {"eq", "in"} } }

\* the values of the eq and in leaves of field f, in the order of the list
RECURSIVE FieldValues(_, _)
FieldValues(content, f) ==
    IF content = << >> THEN << >>
    ELSE (IF LeafOf(Head(content), f) THEN Head(content).value ELSE << >>)
            \o FieldValues(Tail(content), f)

\* how often a cell stands in a list
Count(content, c) == Cardinality({ i \in 1..Len(content) : content[i] = c })

\* C22: for every field with two or more eq or in leaves in its input,
\* mergeContentField returns exactly one eq or in leaf of that field, the in
\* leaf with the values of those leaves in input order, duplicates kept;
\* the leaf of a field with one eq or in leaf and every cell with another op
\* are returned unchanged, and nothing else is returned
C22_MergeCollapsesTheLeavesOfAField ==
    invocation.fn = "mergeContentField"
        => LET content == invocation.content
               out == invocation.out
               At(list, f) == { i \in 1..Len(list) : LeafOf(list[i], f) }
               others == { i \in 1..Len(content) : content[i].op \notin {"eq", "in"} }
           IN  /\ \A f \in LeafFields(content) :
                     /\ Cardinality(At(out, f)) = 1
                     /\ \A i \in At(out, f) :
                           IF Cardinality(At(content, f)) > 1
                           THEN out[i] = [op |-> "in", field |-> f,
                                          value |-> FieldValues(content, f)]
                           ELSE \A j \in At(content, f) : out[i] = content[j]
               /\ \A i \in others : Count(out, content[i]) = Count(content, content[i])
               /\ Len(out) = Cardinality(others) + Cardinality(LeafFields(content))

\* an in leaf and an eq leaf of host.id became one in leaf that has the
\* value abc twice
C22_MergedWithADuplicate ==
    /\ invocation.fn = "mergeContentField"
    /\ Len(invocation.content) = 3
    /\ \E i \in 1..Len(invocation.out) :
          invocation.out[i] = [op |-> "in", field |-> "host.id",
                               value |-> <<"abc", "def", "abc">>]
    /\ \E i \in 1..Len(invocation.out) : invocation.out[i].op = "AND"

\* C23 as stated: the merged leaf stands at the place of the first eq or in
\* leaf of its field and the other cells keep their order
C23_MergedLeafAtTheFirstPlace ==
    invocation.fn = "mergeContentField"
        => invocation.out = MergedInPlace(invocation.content, << >>)

\* C23: mergeContentField returns the cells with another op than eq and in
\* first, in their input order, and after them the eq and in leaves, one
\* for every field
C23_OtherCellsFirstThenTheLeaves ==
    invocation.fn = "mergeContentField"
        => LET others == SelectSeq(invocation.content, LAMBDA c : c.op \notin {"eq", "in"})
               out == invocation.out
           IN  /\ Len(out) >= Len(others)
               /\ \A i \in 1..Len(out) :
                     IF i <= Len(others) THEN out[i] = others[i]
                     ELSE /\ out[i].op \in {"eq", "in"}
                          /\ \A j \in 1..Len(out) : LeafOf(out[j], out[i].field) => j = i

\* the in leaf came first, the AND second and the eq leaf third: the merged
\* leaf is returned after the AND
C23_MergedLeafAfterTheAnd ==
    /\ invocation.fn = "mergeContentField"
    /\ invocation.content = <<[op |-> "in", field |-> "host.id", value |-> <<"abc", "def">>],
                              [op |-> "AND", content |-> << >>],
                              [op |-> "eq", field |-> "host.id", value |-> <<"abc">>]>>
    /\ invocation.out = <<[op |-> "AND", content |-> << >>],
                          [op |-> "in", field |-> "host.id",
                           value |-> <<"abc", "def", "abc">>]>>

----------------------------------------------------------------------------
(* The tree PoliciesTranslate returns.                                     *)

\* C24 as stated: two calls of PoliciesTranslate with the same policies and
\* resource types return the same tree, the order of the cells of an OR
\* included
C24_SameTreeTwice ==
    invocation.fn = "PoliciesTranslate" => invocation.out = invocation.again

\* C24: two calls of PoliciesTranslate with the same policies and resource
\* types return the same error and the same tree up to the order of the eq
\* and in leaves of different fields in the OR at its root: the cells with
\* another op stand at the same places, every leaf of the one is a leaf of
\* the other, and with leaves of at most one field the trees are equal
C24_SameTreeUpToTheOrderOfTheFields ==
    invocation.fn = "PoliciesTranslate"
        => LET a == invocation.out.cell
               b == invocation.again.cell
           IN  /\ invocation.out.err = invocation.again.err
               /\ a.op = b.op
               /\ a.op # "OR" => a = b
               /\ a.op = "OR"
                    => /\ Len(a.content) = Len(b.content)
                       /\ \A i \in 1..Len(a.content) :
                             IF a.content[i].op \in {"eq", "in"}
                             THEN \E j \in 1..Len(b.content) : b.content[j] = a.content[i]
                             ELSE b.content[i] = a.content[i]
                       /\ Cardinality(LeafFields(a.content)) <= 1 => a = b

\* the policies job.id = abc and job.name = def were translated twice and
\* the two OR cells have their leaves in different orders
C24_TwoOrders ==
    /\ invocation.fn = "PoliciesTranslate"
    /\ Len(invocation.policies) = 2
    /\ invocation.out.cell =
          [op |-> "OR", content |-> <<[op |-> "eq", field |-> "job.id", value |-> <<"abc">>],
                                      [op |-> "eq", field |-> "job.name", value |-> <<"def">>]>>]
    /\ invocation.again.cell =
          [op |-> "OR", content |-> <<[op |-> "eq", field |-> "job.name", value |-> <<"def">>],
                                      [op |-> "eq", field |-> "job.id", value |-> <<"abc">>]>>]

\* an OR or AND cell with exactly one child stands somewhere in the tree
RECURSIVE HasCellWithOneChild(_)
HasCellWithOneChild(cell) ==
    /\ cell.op \in {"OR", "AND"}
    /\ \/ Len(cell.content) = 1
       \/ \E i \in 1..Len(cell.content) : HasCellWithOneChild(cell.content[i])

\* C25 as stated: the tree PoliciesTranslate returns has no OR or AND cell
\* with exactly one child, at any depth
C25_NoCellWithOneChild ==
    invocation.fn = "PoliciesTranslate" => ~HasCellWithOneChild(invocation.out.cell)

\* C25: PoliciesTranslate wraps no single cell: for one policy it returns
\* what PolicyTranslate returns for it, which for one element of a requested
\* type is the cell of that element as it is, and an OR with exactly one
\* child at its root is the cell of an element of one of the policies; the
\* cells of the expressions are not unwrapped
C25_OnlyTheRootIsUnwrapped ==
    (invocation.fn = "PoliciesTranslate" /\ invocation.out.err = NoErr)
        => LET cell == invocation.out.cell
               policies == invocation.policies
               kept == KeptElements(policies[1], invocation.resourceTypeSet)
           IN  /\ Len(policies) = 1 => cell = invocation.single.cell
               /\ (Len(policies) = 1 /\ policies[1].text = "[...]")
                    => \A k \in kept : kept = {k} => cell = policies[1].elements[k].cell
               /\ (cell.op = "OR" /\ Len(cell.content) = 1)
                    => \E i \in 1..Len(policies) :
                          \E k \in 1..Len(policies[i].elements) :
                             policies[i].elements[k].cell = cell

\* the policy of two elements that are each an OR of one any leaf is
\* returned as the AND of the two OR cells
C25_NestedOrWithOneChild ==
    /\ invocation.fn = "PoliciesTranslate"
    /\ invocation.out.cell =
          [op |-> "AND",
           content |-> <<[op |-> "OR", content |->
                             <<[op |-> "any", field |-> "job.id", value |-> << >>]>>],
                         [op |-> "OR", content |->
                             <<[op |-> "any", field |-> "host.id", value |-> << >>]>>]>>]

----------------------------------------------------------------------------
(* The merge applied to its own result.                                    *)

\* C26 as stated: merging what mergeContentField returned returns it
\* unchanged
C26_MergeOfMergedIsTheSame ==
    invocation.fn = "mergeContentField" => invocation.twice = invocation.out

\* C26: merging what mergeContentField returned changes at most the order
\* of the eq and in leaves of different fields: the result has the same
\* length, the cells with another op at the same places and the same
\* leaves, and it is the same list when the leaves have at most one field
C26_MergeOfMergedHasTheSameCells ==
    invocation.fn = "mergeContentField"
        => LET out == invocation.out
               twice == invocation.twice
           IN  /\ Len(twice) = Len(out)
               /\ \A i \in 1..Len(out) :
                     IF out[i].op \in {"eq", "in"}
                     THEN \E j \in 1..Len(twice) : twice[j] = out[i]
                     ELSE twice[i] = out[i]
               /\ Cardinality(LeafFields(out)) <= 1 => twice = out

\* two leaves of host.id were merged, a leaf of host.os was kept, and the
\* second merge returned the two leaves in the other order
C26_SecondMergeInAnotherOrder ==
    /\ invocation.fn = "mergeContentField"
    /\ Len(invocation.content) = 3
    /\ Len(invocation.out) = 2
    /\ invocation.twice = <<invocation.out[2], invocation.out[1]>>
    /\ invocation.twice # invocation.out

----------------------------------------------------------------------------
(* The leaf conditions.                                                    *)

\* C27: forOr answers with a boolean and nothing else; it is true exactly
\* when GetAttr did not fail and a value of the attribute, the attribute
\* itself when it is no list, satisfies fn against a value of the condition
C27_ForOrIsExistential ==
    invocation.fn = "forOr"
        => /\ invocation.out \in BOOLEAN
           /\ invocation.out
                 <=> /\ invocation.ctx.kind # "errCtx"
                     /\ \E a \in Range(invocation.ctx.attr), v \in Range(invocation.value) :
                           a = v

\* a list with one value of the condition and one other value made the
\* leaf true
C27_OneOfTheListHits ==
    /\ invocation.fn = "forOr"
    /\ invocation.ctx = [kind |-> "listCtx", attr |-> <<2, 3>>]
    /\ invocation.value = <<1, 2>>
    /\ invocation.out

----------------------------------------------------------------------------
(* The members of a group.                                                 *)

\* C28: when BulkCreateSubjectMembers or UpdateMembersExpiredAt returns nil,
\* the relations and group records it wrote are in the database after the
\* call, where every later read finds them, as it is for the deletions of
\* a BulkDeleteSubjectMembers that returns nil
C28_NilMeansCommitted ==
    (/\ invocation.fn \in {"BulkCreateSubjectMembers", "UpdateMembersExpiredAt",
                            "BulkDeleteSubjectMembers"}
     /\ invocation.out.err = NoErr)
        => invocation.out.db = invocation.out.tx

----------------------------------------------------------------------------
(* The subject-system-group record under two callers.                      *)

\* the caller returned nil and its transaction was committed
Stored(c) ==
    /\ updaters[c].pc = "ended"
    /\ updaters[c].err = NoErr
    /\ updaters[c].committed

\* C29: when two calls on the same record for different group pks both
\* returned nil and were committed, the stored groups map has both changes,
\* the expiry of an added group and no entry of a removed one; and an
\* update that changed no row ends its attempt with ErrNeedRetry, so that a
\* call that returned nil has changed a row
C29_NoLostUpdate ==
    /\ \A c, d \in Callers :
          (Stored(c) /\ Stored(d) /\ updaters[c].groupPK # updaters[d].groupPK)
             => /\ subjectSystemGroup.found
                /\ subjectSystemGroup.groups[updaters[c].groupPK] = updaters[c].expiredAt
                /\ subjectSystemGroup.groups[updaters[d].groupPK] = updaters[d].expiredAt
    /\ \A c \in Callers :
          /\ updaters[c].count = 0 => updaters[c].err = "ErrNeedRetry"
          /\ (updaters[c].pc \in {"returned", "ended"} /\ updaters[c].err = NoErr)
                => updaters[c].count = 1

\* one caller added g1, the other removed g2 after its first update changed
\* no row, and both were committed
C29_BothStoredAfterAConflict ==
    /\ Stored("c1") /\ Stored("c2")
    /\ updaters["c1"].op = "add" /\ updaters["c1"].groupPK = "g1"
    /\ updaters["c2"].op = "remove" /\ updaters["c2"].groupPK = "g2"
    /\ updaters["c2"].attempts = 2
    /\ subjectSystemGroup.groups = [g \in GroupPKs |-> IF g = "g1" THEN updaters["c1"].expiredAt
                                                       ELSE 0]

\* C30: a call of addOrUpdateSubjectSystemGroup or removeSubjectSystemGroup
\* calls doUpdateSubjectSystemGroup at most RetryCount times, whatever the
\* other caller does, and every call that has started returns
C30_AtMostRetryCountAttempts ==
    /\ [](\A c \in Callers : updaters[c].attempts <= RetryCount /\ updaters[c].i <= RetryCount)
    /\ \A c \in Callers :
          (updaters[c].pc # "idle") ~> (updaters[c].pc \in {"returned", "ended"})

\* a call returned ErrNeedRetry after RetryCount attempts
C30_GaveUpAfterRetryCount ==
    \E c \in Callers :
       /\ updaters[c].pc = "returned"
       /\ updaters[c].err = "ErrNeedRetry"
       /\ updaters[c].attempts = RetryCount

----------------------------------------------------------------------------
(* The results of the calls on the subject-system-group record.            *)

\* an attempt of caller c ends in this step
AttemptEnds(c) ==
    /\ updaters[c].pc \in {"get", "create", "update"}
    /\ \/ updaters'[c].pc = "returned"
       \/ updaters[c].pc # "get" /\ updaters'[c].pc = "get"

\* C31: an attempt that ends with nil ends the call with nil, and the call
\* returns nil only after an update that changed a row; an attempt that
\* ends with ErrNeedRetry is followed by another attempt unless it was the
\* third, after which the call returns ErrNeedRetry; an attempt that ends
\* with another error ends the call with that error, and a call that has
\* returned makes no further attempt
C31_NilIffAnAttemptSucceeded ==
    [][\A c \in Callers :
          /\ AttemptEnds(c)
                => /\ updaters'[c].err = NoErr
                         => updaters'[c].pc = "returned" /\ updaters'[c].count = 1
                   /\ updaters'[c].err = "ErrNeedRetry"
                         => IF updaters[c].attempts < RetryCount
                            THEN updaters'[c].pc = "get"
                            ELSE updaters'[c].pc = "returned"
                   /\ updaters'[c].err \notin {NoErr, "ErrNeedRetry"}
                         => updaters'[c].pc = "returned"
                   /\ updaters'[c].pc = "returned" /\ updaters'[c].count # 1
                         => updaters'[c].err # NoErr
          /\ updaters[c].pc \in {"returned", "ended"}
                => /\ updaters'[c].attempts = updaters[c].attempts
                   /\ updaters'[c].err = updaters[c].err]_vars

\* the first attempt needed a retry and the second failed with another
\* error, which ended the call
C31_OtherErrorAfterARetry ==
    \E c \in Callers :
       /\ updaters[c].pc = "returned"
       /\ updaters[c].attempts = 2
       /\ updaters[c].err = "UpdateWithTx fail"

\* C32: UpdateWithTx is issued only with a record that GetBySystemSubject
\* found; a create without error has ended the attempt, and with it the
\* call, with nil, so that a caller whose transaction holds the record it
\* created has returned nil after one attempt
C32_CreateEndsTheAttempt ==
    \A c \in Callers :
       /\ updaters[c].pc = "update" => updaters[c].row.found
       /\ (updaters[c].wrote /\ updaters[c].tx.reversion = 0 /\ updaters[c].op = "add"
              /\ updaters[c].count # 1)
             => /\ updaters[c].pc \in {"returned", "ended"}
                /\ updaters[c].err = NoErr
                /\ updaters[c].attempts = 1

\* C33: in bulkDeleteSubjectSystemGroup a pair that has no record or whose
\* record has not the group makes removeSubjectSystemGroup return
\* sql.ErrNoRows or ErrNoSubjectSystemGroup after one attempt with the
\* record as it was; the loop goes on after nil and after these two errors
\* and with them alone it reaches every pair and returns nil; the first
\* other error is returned and no later pair is tried
C33_MissingGroupsAreSkipped ==
    (invocation.fn = "bulkDeleteSubjectSystemGroup"
        /\ invocation.out.err # "ListGroupAuthSystem fail")
        => LET records == invocation.records
               results == invocation.out.results
               Skipped(err) == err \in {"sql.ErrNoRows", "ErrNoSubjectSystemGroup"}
               Aborting(k) == results[k].err # NoErr /\ ~Skipped(results[k].err)
           IN  /\ \A k \in 1..Len(results) :
                     /\ (invocation.fails[k] # "GetBySystemSubject fail"
                            /\ (~records[k].found \/ records[k].groups["g1"] = 0))
                           => /\ Skipped(results[k].err)
                              /\ results[k].err = "sql.ErrNoRows" <=> ~records[k].found
                              /\ results[k].attempts = 1
                              /\ results[k].row = records[k]
                     /\ Aborting(k) => k = Len(results) /\ invocation.out.err = results[k].err
               /\ IF \E k \in 1..Len(results) : Aborting(k)
                  THEN invocation.out.err # NoErr
                  ELSE invocation.out.err = NoErr /\ Len(results) = Len(records)

\* the first pair has no record, the second a record without the group,
\* and the bulk operation returned nil after both
C33_TwoPairsSkipped ==
    /\ invocation.fn = "bulkDeleteSubjectSystemGroup"
    /\ Len(invocation.records) = 2
    /\ ~invocation.records[1].found
    /\ invocation.records[2].found /\ invocation.records[2].groups["g1"] = 0
    /\ invocation.out.err = NoErr
    /\ Len(invocation.out.results) = 2
    /\ invocation.out.results[2].err = "ErrNoSubjectSystemGroup"

\* C34: BulkCreateSubjectMembers and UpdateMembersExpiredAt never lower the
\* expiry of a relation that exists: what the call wrote for an existing
\* relation and for the group in its record differs from what was stored
\* only when the requested expiry is strictly greater, and is then the
\* requested expiry; without a failure every strictly greater request is
\* written; UpdateMembersExpiredAt writes nothing for a subject that is no
\* member
C34_ExpiredAtNeverDecreases ==
    (invocation.fn \in {"BulkCreateSubjectMembers", "UpdateMembersExpiredAt"})
        => LET before == invocation.before
               wanted == invocation.wanted
               Greater(m) == m \in DOMAIN wanted /\ wanted[m] > before.relation[m]
           IN  \A m \in MemberPKs, after \in {invocation.out.tx, invocation.out.db} :
                  /\ before.relation[m] > 0
                        => /\ after.relation[m] >= before.relation[m]
                           /\ after.groups[m] >= before.groups[m]
                           /\ after.relation[m] # before.relation[m]
                                 => Greater(m) /\ after.relation[m] = wanted[m]
                           /\ after.groups[m] # before.groups[m]
                                 => Greater(m) /\ after.groups[m] = wanted[m]
                  /\ (before.relation[m] > 0 /\ Greater(m) /\ invocation.out.err = NoErr)
                        => /\ invocation.out.tx.relation[m] = wanted[m]
                           /\ invocation.out.tx.groups[m] = wanted[m]
                  /\ (invocation.fn = "UpdateMembersExpiredAt" /\ before.relation[m] = 0)
                        => /\ after.relation[m] = 0
                           /\ after.groups[m] = before.groups[m]

\* UpdateMembersExpiredAt asked for a later expiry of m1 and an earlier one
\* of m2, both members, and wrote the one of m1 alone
C34_OneRaisedOneKept ==
    /\ invocation.fn = "UpdateMembersExpiredAt"
    /\ invocation.out.err = NoErr
    /\ DOMAIN invocation.wanted = MemberPKs
    /\ invocation.before.relation["m1"] = 1 /\ invocation.wanted["m1"] = 2
    /\ invocation.before.relation["m2"] = 2 /\ invocation.wanted["m2"] = 1
    /\ invocation.out.tx.relation["m1"] = 2
    /\ invocation.out.tx.relation["m2"] = 2

\* C36: BulkDeleteSubjectMembers is all or nothing: when it returns an error
\* the count map is nil and no relation and no group entry is other than
\* before the call, whatever the transaction had deleted; when it returns
\* nil the relations and group entries of all the members are gone and
\* those of the others are as before
C36_DeleteIsAllOrNothing ==
    (invocation.fn = "BulkDeleteSubjectMembers")
        => LET out == invocation.out
               before == invocation.before
           IN  /\ out.err # NoErr <=> invocation.fail # "none"
                                       /\ (invocation.fail \in
                                              {"BulkDeleteByMembersWithTx userPKs"}
                                              => invocation.members \cap UserPKs # {})
                                       /\ (invocation.fail \in
                                              {"BulkDeleteByMembersWithTx departmentPKs"}
                                              => invocation.members \cap DepartmentPKs # {})
               /\ out.err # NoErr => out.count.nil /\ out.db = before
               /\ out.err = NoErr
                     => /\ ~out.count.nil
                        /\ \A m \in MemberPKs :
                              IF m \in invocation.members
                              THEN out.db.relation[m] = 0 /\ out.db.groups[m] = 0
                              ELSE /\ out.db.relation[m] = before.relation[m]
                                   /\ out.db.groups[m] = before.groups[m]

\* the commit failed after the transaction had deleted the relations and
\* the group entries of two members, and both are still stored
C36_CommitFailedAfterTheDeletions ==
    /\ invocation.fn = "BulkDeleteSubjectMembers"
    /\ invocation.fail = "tx.Commit"
    /\ invocation.members = MemberPKs
    /\ \A m \in MemberPKs : invocation.before.relation[m] > 0
    /\ \A m \in MemberPKs : invocation.out.tx.relation[m] = 0 /\ invocation.out.tx.groups[m] = 0
    /\ invocation.out.err # NoErr
    /\ invocation.out.db = invocation.before

C37_FailedPreludeLeavesAllUnchanged ==
    (invocation.fn \in {"AlterCustomPolicies", "CreateAndDeleteTemplatePolicies",
                        "UpdateTemplatePolicies"})
        => LET out == invocation.out
               LookupFailed == invocation.subject \notin SubjectPKs \/ invocation.fail # "none"
           IN  IF LookupFailed \/ invocation.unknownAction
               THEN /\ out.err \notin {NoErr, "ErrWrite"}
                    /\ (~LookupFailed) => out.err = ErrActionNotExists
                    /\ out.calls = << >>
                    /\ out.table = invocation.table
                    /\ out.cache = invocation.cache
               ELSE /\ out.err \in {NoErr, "ErrWrite"}
                    /\ out.calls # << >> /\ out.calls[1] = StorageWrite

\* UpdateTemplatePolicies of a known subject with a policy of an unknown
\* action id, on stored policies and a filled cache
C37_UnknownActionWithAFilledCache ==
    /\ invocation.fn = "UpdateTemplatePolicies"
    /\ invocation.subject = "u1"
    /\ invocation.fail = "none"
    /\ invocation.unknownAction
    /\ \A p \in PolicyPKs : invocation.table[p] # Absent
    /\ \A k \in CacheKeys : invocation.cache[k].hit
    /\ invocation.out.err = ErrActionNotExists
    /\ invocation.out.calls = << >>
    /\ invocation.out.cache = invocation.cache

\* C38: AlterCustomPolicies deletes the updated expressions from the
\* expression cache only when its storage write succeeded; after a write
\* that succeeded it calls the deletion of the expressions and then the
\* invalidation of the policy cache of the subject, after one that failed
\* the invalidation of the policy cache alone, and in both cases the write
\* is the first of the calls
C38_ExpressionsDroppedAfterTheWrite ==
    (invocation.fn = "AlterCustomPolicies")
        => LET calls == invocation.out.calls
               At(call) == { i \in 1..Len(calls) : calls[i] = call }
           IN  /\ At(BatchDeleteExpressionsFromCache) # {}
                     <=> calls # << >> /\ invocation.out.err = NoErr
               /\ \A e \in At(BatchDeleteExpressionsFromCache) :
                     /\ \E w \in At(StorageWrite) : w < e
                     /\ \A d \in At(DeleteSystemSubjectPKsFromCache) : e < d
               /\ \A d \in At(DeleteSystemSubjectPKsFromCache) :
                     \E w \in At(StorageWrite) : w < d
               /\ calls # << >>
                     => calls = IF invocation.out.err = NoErr
                                THEN <<StorageWrite, BatchDeleteExpressionsFromCache,
                                       DeleteSystemSubjectPKsFromCache>>
                                ELSE <<StorageWrite, DeleteSystemSubjectPKsFromCache>>

\* AlterCustomPolicies changed the table and made its three calls
C38_WroteThenDroppedBoth ==
    /\ invocation.fn = "AlterCustomPolicies"
    /\ invocation.out.err = NoErr
    /\ invocation.out.table # invocation.table
    /\ invocation.out.cache # invocation.cache
    /\ Len(invocation.out.calls) = 3

\* C39: what Eval returns does not depend on the debug entry: for the same
\* request, the same policy list and the same failing calls it returns with
\* a debug entry, whether the translation made for the entry fails or not,
\* the (isPass, err) that it returns with a nil entry
C39_DebugEntryDoesNotChangeTheDecision ==
    (invocation.fn = "Eval(r, entry, withoutCache)")
        => LET Returned(entry, debugFail) ==
                   Eval(invocation.q, invocation.list, invocation.listFail, invocation.fail,
                        invocation.ffail, entry, debugFail).ret
           IN  /\ invocation.out.ret = Returned(FALSE, "none")
               /\ \A debugFail \in {"none", "GetResourceTypes", "PoliciesTranslate"} :
                     Returned(TRUE, debugFail) = Returned(FALSE, "none")

\* Eval passed with a debug entry whose translation failed
C39_PassedWithAFailedTranslation ==
    /\ invocation.fn = "Eval(r, entry, withoutCache)"
    /\ invocation.entry
    /\ invocation.debugFail = "PoliciesTranslate"
    /\ invocation.out.entry.expression = "set fail"
    /\ invocation.out.ret = Ret("true", NoErr)

====
